---- MODULE Spec2Model ----
(***************************************************************************)
(* The routing core (src/src/core.rs) as a state machine: one Core owning  *)
(* its lifecycle state, routing table, proxy/client maps, caches and       *)
(* filters, driven by transport events and by messages from its peers.     *)
(*                                                                         *)
(* Every handler of core.rs is an operator from a core record (the fields  *)
(* of struct Core plus the effects of the running handler) to a core       *)
(* record; an action packs the variables into the record, runs the whole   *)
(* handler and commits the result.                                         *)
(***************************************************************************)
EXTENDS Integers, Sequences, FiniteSets, TLC

VARIABLES
    state,                  \* Core::state
    client_restriction,     \* Core::client_restriction
    name,                   \* Core::full_id.public_id().name()
    routing_table,          \* Core::routing_table : name -> NodeInfo
    proxy_map,              \* Core::proxy_map : connection -> PublicId
    client_map,             \* Core::client_map : key -> <<connection, client_restriction>>
    node_id_cache,          \* Core::node_id_cache : name -> PublicId
    signed_message_filter,  \* Core::signed_message_filter
    connection_filter,      \* Core::connection_filter
    grp_msg_filter,         \* Core::grp_msg_filter
    message_accumulator,    \* Core::message_accumulator : message -> set of signer keys
    quorum_size,            \* the accumulator's quorum size
    data_cache,             \* Core::data_cache : data name -> data
    is_listening,           \* Core::is_listening
    connections,            \* transport: the connections that are open
    renames,                \* number of times set_self_node_name took effect
    sent,                   \* crust_service.send calls of the last handler, in order
    dropped,                \* crust_service.drop_node calls of the last handler, in order
    events,                 \* Events given to the user by the last handler, in order
    calls,                  \* other crust_service calls of the last handler, in order
    replies,                \* result_tx.send calls of the last handler, in order
    args,                   \* the arguments of a function of utils.rs called on its own
    result,                 \* what that call returned, <<>> before the call
    last,                   \* the event handled last, the state it found, and its result
    peer,                   \* a second Core, at the other end of a connection
    wire                    \* the messages in flight between the two cores

coreVars == <<state, client_restriction, name, routing_table, proxy_map, client_map,
              node_id_cache, signed_message_filter, connection_filter, grp_msg_filter,
              message_accumulator, quorum_size, data_cache, is_listening>>

vars == <<state, client_restriction, name, routing_table, proxy_map, client_map,
          node_id_cache, signed_message_filter, connection_filter, grp_msg_filter,
          message_accumulator, quorum_size, data_cache, is_listening,
          connections, renames, sent, dropped, events, calls, replies, args, result,
          last, peer, wire>>

----------------------------------------------------------------------------
(* Bounds of the model and program constants.                               *)

\* kademlia_routing_table::group_size() is 8 in the crate; the model is
\* parametric in it and is checked with a scaled-down close group.
GROUP_SIZE == 2

\* const MAX_JOINING_NODES
MAX_JOINING_NODES == 1

\* The longest list of close nodes a relocated name is calculated from, and
\* the names that occur in it.
MaxCloseNodes == 3
XorNames == 0..7

\* How many times the name may be replaced in one run of the model.
MaxRenames == 2

\* The signing key of this participant; the peers' keys.
OurKey == 1
PeerKeys == {2, 3}
\* The keys of the peers that ask to join: one more than the core admits.
JoinerKeys == (OurKey + 1)..(OurKey + GROUP_SIZE + 1)

\* The transport's connection handles.
Conns == {"c1", "c2"}

Min(a, b) == IF a <= b THEN a ELSE b

----------------------------------------------------------------------------
(* Names, keys and hashes.  A key is 32 bytes and a name 64 bytes, so the   *)
(* byte string of a key is never that of a name: KeyBytes keeps them apart  *)
(* by sign.  sha512 is injective and has neither fixed points nor cycles.   *)

KeyBytes(k) == 0 - k

sha512(b) == IF b < 0 THEN 2 * (0 - b) ELSE 2 * b + 1

\* XorName::new(hash::sha512::hash(&public_id.signing_public_key().0).0)
NameOfKey(k) == sha512(KeyBytes(k))

RECURSIVE Xor(_, _)
Xor(a, b) ==
    IF a = 0 THEN b
    ELSE IF b = 0 THEN a
    ELSE 2 * Xor(a \div 2, b \div 2) + (((a % 2) + (b % 2)) % 2)

\* xor_name::closer_to_target_or_equal(a, b, target)
closer_to_target_or_equal(a, b, target) == Xor(a, target) <= Xor(b, target)

PublicId(k, n) == [key |-> k, name |-> n]

\* a PublicId is unrelocated iff name = H(signing key)
IsUnrelocated(pid) == pid.name = NameOfKey(pid.key)

\* The names of S in ascending XOR distance to target.
RECURSIVE SortByDistance(_, _)
SortByDistance(S, target) ==
    IF S = {} THEN <<>>
    ELSE LET m == CHOOSE x \in S : \A y \in S : closer_to_target_or_equal(x, y, target)
         IN  <<m>> \o SortByDistance(S \ {m}, target)

Take(s, n) == SubSeq(s, 1, Min(n, Len(s)))

Range(s) == {s[i] : i \in 1..Len(s)}

\* f with key k bound to v (HashMap::insert, LruCache::insert)
Insert(f, k, v) == [x \in (DOMAIN f) \cup {k} |-> IF x = k THEN v ELSE f[x]]

\* f without key k (HashMap::remove)
Remove(f, k) == [x \in (DOMAIN f) \ {k} |-> f[x]]

EmptyMap == [x \in {} |-> 0]

----------------------------------------------------------------------------
(* The routing table (crate kademlia_routing_table), anchored at our name:  *)
(* a map name -> NodeInfo, read in ascending distance to our name.  The     *)
(* peers of the model are fewer than the table's optimal size, so add_node  *)
(* never evicts.                                                            *)

NodeInfo(pid, conns) == [public_id |-> pid, connections |-> conns]

RtLen(rt) == Cardinality(DOMAIN rt)

\* RoutingTable::our_close_group: the GROUP_SIZE entries closest to us
RtOurCloseGroup(rt, our) == Take(SortByDistance(DOMAIN rt, our), GROUP_SIZE)

\* RoutingTable::is_close
RtIsClose(rt, our, n) ==
    IF RtLen(rt) < GROUP_SIZE THEN TRUE
    ELSE closer_to_target_or_equal(n, SortByDistance(DOMAIN rt, our)[GROUP_SIZE], our)

\* RoutingTable::want_to_add
RtWantToAdd(rt, our, n) == n # our /\ n \notin DOMAIN rt

\* RoutingTable::add_node: <<table, is_added>>
RtAddNode(rt, our, info) ==
    IF info.public_id.name = our \/ info.public_id.name \in DOMAIN rt
    THEN <<rt, FALSE>>
    ELSE <<Insert(rt, info.public_id.name, info), TRUE>>

\* RoutingTable::add_connection: <<table, added>>
RtAddConnection(rt, n, conn) ==
    IF n \notin DOMAIN rt \/ conn \in Range(rt[n].connections)
    THEN <<rt, FALSE>>
    ELSE <<[rt EXCEPT ![n].connections = Append(@, conn)], TRUE>>

\* RoutingTable::drop_connection: the first entry holding conn loses it, and is
\* removed if that was its last connection: <<table, names removed (at most one)>>
RtDropConnection(rt, our, conn) ==
    IF {h \in DOMAIN rt : conn \in Range(rt[h].connections)} = {} THEN <<rt, {}>>
    ELSE LET n    == SortByDistance({h \in DOMAIN rt :
                                           conn \in Range(rt[h].connections)}, our)[1]
             left == SelectSeq(rt[n].connections, LAMBDA x : x # conn)
         IN  IF left = <<>> THEN <<Remove(rt, n), {n}>>
             ELSE <<[rt EXCEPT ![n].connections = left], {}>>

\* const QUORUM_SIZE of the crate is 5 of a GROUP_SIZE of 8
QUORUM_SIZE == (GROUP_SIZE * 5 + 7) \div 8

\* RoutingTable::dynamic_quorum_size
RtDynamicQuorumSize(rt) ==
    Min((2 * RtLen(rt) * QUORUM_SIZE + GROUP_SIZE) \div (2 * GROUP_SIZE), QUORUM_SIZE)

----------------------------------------------------------------------------
(* Messages.  A signature is modelled by the key that made it: it verifies  *)
(* against a public key iff that key made it.                               *)

\* Authority (authority.rs)
Client(client_key, proxy_node_name) ==
    [type |-> "Client", client_key |-> client_key, name |-> proxy_node_name]
ManagedNode(n) == [type |-> "ManagedNode", client_key |-> 0, name |-> n]
NodeManager(n) == [type |-> "NodeManager", client_key |-> 0, name |-> n]
NaeManager(n)  == [type |-> "NaeManager", client_key |-> 0, name |-> n]

\* Authority::is_group
is_group(a) == a.type \in {"NodeManager", "NaeManager"}

\* Authority::get_name: for a Client, the name of its proxy
get_name(a) == a.name

\* RoutingMessage::Request / RoutingMessage::Response
RequestMessage(content, src, dst) ==
    [kind |-> "Request", content |-> content, src |-> src, dst |-> dst]
ResponseMessage(content, src, dst) ==
    [kind |-> "Response", content |-> content, src |-> src, dst |-> dst]

\* SignedMessage { content, public_id, signature }
SignedMessage(content, pid, signer) ==
    [content |-> content, public_id |-> pid, signer |-> signer]

\* SignedMessage::check_integrity
check_integrity(signed_msg) == signed_msg.signer = signed_msg.public_id.key

\* HopMessage { content, name, signature }
HopMessage(signed_msg, hop_name, signer) ==
    [type |-> "HopMessage", content |-> signed_msg, name |-> hop_name, signer |-> signer]

\* HopMessage::verify
hop_verify(hop_msg, key) == hop_msg.signer = key

\* DirectMessage
BootstrapIdentify(pid, q) ==
    [type |-> "BootstrapIdentify", public_id |-> pid, current_quorum_size |-> q]
BootstrapDeny == [type |-> "BootstrapDeny"]
ClientIdentify(pid, signer, restriction) ==
    [type |-> "ClientIdentify", public_id |-> pid, signer |-> signer,
     client_restriction |-> restriction]
NodeIdentify(pid, signer) ==
    [type |-> "NodeIdentify", public_id |-> pid, signer |-> signer]

NoMsg == [type |-> "none"]

----------------------------------------------------------------------------
(* The core record and the effects of a handler.                            *)

\* The first element of the iteration order ord that lies in S.
FirstIn(ord, S) == ord[CHOOSE i \in 1..Len(ord) :
                         ord[i] \in S /\ \A j \in 1..(i - 1) : ord[j] \notin S]

\* All orders in which the elements of S can be iterated.
RECURSIVE Orders(_)
Orders(S) ==
    IF S = {} THEN {<<>>}
    ELSE UNION {{<<x>> \o o : o \in Orders(S \ {x})} : x \in S}

\* struct Core, as the running handler sees it.  conn_order and key_order are
\* the iteration orders of the HashMaps proxy_map and client_map.
Self(conn_order, key_order, name_low) ==
    [state |-> state, client_restriction |-> client_restriction, name |-> name,
     routing_table |-> routing_table, proxy_map |-> proxy_map,
     client_map |-> client_map, node_id_cache |-> node_id_cache,
     signed_message_filter |-> signed_message_filter,
     connection_filter |-> connection_filter, grp_msg_filter |-> grp_msg_filter,
     message_accumulator |-> message_accumulator, quorum_size |-> quorum_size,
     data_cache |-> data_cache, is_listening |-> is_listening,
     renames |-> renames,
     conn_order |-> conn_order, key_order |-> key_order, name_low |-> name_low,
     sent |-> <<>>, dropped |-> <<>>, events |-> <<>>, calls |-> <<>>,
     replies |-> <<>>,
     res |-> "Ok"]

\* full_id.public_id()
our_public_id(c) == PublicId(OurKey, c.name)

\* crust_service.send(connection, bytes)
crust_send(c, conn, msg) == [c EXCEPT !.sent = Append(@, [conn |-> conn, msg |-> msg])]

\* crust_service.drop_node(connection)
drop_node(c, conn) == [c EXCEPT !.dropped = Append(@, conn)]

\* the other calls of crust_service
crust_call(c, what) == [c EXCEPT !.calls = Append(@, what)]

\* event_sender.send(event)
send_event(c, ev) == [c EXCEPT !.events = Append(@, ev)]

\* let x = v; ...  : v is computed once and named
With(v, F(_)) == F(v)

\* try!(..); ... : an error ends the handler, anything else goes on with the rest
Try(c, F(_)) == IF c.res # "Ok" THEN c ELSE F(c)

\* return Err(err)
Err(c, err) == [c EXCEPT !.res = err]

\* let _ = ... : the result of the call is discarded
Discard(c) == IF c.res = "panic" THEN c ELSE [c EXCEPT !.res = "Ok"]

----------------------------------------------------------------------------
(* Identification, listening and the connection lifecycle.                  *)

\* bootstrap_identify as it would be if it told the full quorum size
bootstrap_identify_full_quorum(c, conn) ==
    crust_send(c, conn, BootstrapIdentify(our_public_id(c), QUORUM_SIZE))

\* Core::bootstrap_identify
bootstrap_identify(c, conn) ==
    crust_send(c, conn, BootstrapIdentify(our_public_id(c),
                                          RtDynamicQuorumSize(c.routing_table)))

\* bootstrap_deny as it would be if the denied connection were dropped
bootstrap_deny_drops(c, conn) == crust_send(drop_node(c, conn), conn, BootstrapDeny)

\* Core::bootstrap_deny
bootstrap_deny(c, conn) == crust_send(c, conn, BootstrapDeny)

\* Core::client_identify
client_identify(c, conn) ==
    crust_send(c, conn, ClientIdentify(our_public_id(c), OurKey, c.client_restriction))

\* Core::node_identify
node_identify(c, conn) ==
    crust_send(c, conn, NodeIdentify(our_public_id(c), OurKey))

\* Core::verify_signed_public_id
verify_signed_public_id(msg) == msg.signer = msg.public_id.key

\* Core::start_listening
start_listening(c) ==
    IF c.is_listening THEN c
    ELSE crust_call(crust_call(crust_call([c EXCEPT !.is_listening = TRUE],
             "start_beacon"), "start_accepting"), "get_external_endpoints")

\* Core::handle_bootstrap_finished
handle_bootstrap_finished(c) ==
    IF c.state = "Disconnected" THEN start_listening(c) ELSE c

\* Core::set_self_node_name; the assertion failing ends the routing thread
set_self_node_name(c, new_name) ==
    IF NameOfKey(OurKey) = new_name
    THEN Err(c, "panic")
    ELSE [c EXCEPT !.routing_table = EmptyMap, !.name = new_name, !.renames = @ + 1]

\* handle_on_connect without the return that ends the Disconnected branch
handle_on_connect_falls_through(c, conn) ==
    IF c.state = "Disconnected"
    THEN Discard(node_identify(
             Discard(client_identify([c EXCEPT !.state = "Bootstrapping"], conn)), conn))
    ELSE Discard(node_identify(c, conn))

\* Core::handle_on_connect with result Ok((endpoint, connection))
handle_on_connect(c, conn) ==
    IF c.state = "Disconnected"
    THEN Discard(client_identify([c EXCEPT !.state = "Bootstrapping"], conn))
    ELSE Discard(node_identify(c, conn))

\* handle_on_accept promoting itself under the name it already has
handle_on_accept_keeps_name(c, conn) ==
    IF c.state = "Disconnected" THEN [c EXCEPT !.state = "Node"] ELSE c

\* Core::handle_on_accept
handle_on_accept(c, conn) ==
    IF c.state = "Disconnected"
    THEN Try(set_self_node_name(c, sha512(c.name)),
             LAMBDA c1 : [c1 EXCEPT !.state = "Node"])
    ELSE c

\* Event::Churn
Churn(id, lost) == [type |-> "Churn", id |-> id, lost_close_node |-> lost]

\* MessageId::from_added_node / MessageId::from_lost_node
from_added_node(n) == <<"added", n>>
from_lost_node(n) == <<"lost", n>>

\* Core::dropped_routing_node_connection
dropped_routing_node_connection(c, conn) ==
    With(RtDropConnection(c.routing_table, c.name, conn), LAMBDA r :
    With([c EXCEPT !.routing_table = r[1]], LAMBDA c1 :
        IF r[2] = {} THEN c1
        ELSE With(CHOOSE n \in r[2] : TRUE, LAMBDA node_name :
                 IF RtIsClose(c1.routing_table, c1.name, node_name)
                 THEN send_event(c1, Churn(from_lost_node(node_name), {node_name}))
                 ELSE c1)))

\* Core::dropped_client_connection: the first entry of client_map, in its
\* iteration order, that holds the connection is removed
dropped_client_connection(c, conn) ==
    With({k \in DOMAIN c.client_map : c.client_map[k][1] = conn}, LAMBDA holders :
        IF holders = {} THEN c
        ELSE [c EXCEPT !.client_map = Remove(@, FirstIn(c.key_order, holders))])

\* Core::dropped_bootstrap_connection
dropped_bootstrap_connection(c, conn) == [c EXCEPT !.proxy_map = Remove(@, conn)]

\* Core::handle_lost_connection
handle_lost_connection(c, conn) ==
    dropped_bootstrap_connection(
        dropped_client_connection(
            dropped_routing_node_connection(c, conn), conn), conn)

\* Core::joining_nodes_num
joining_nodes_num(c) ==
    Cardinality({k \in DOMAIN c.client_map : ~c.client_map[k][2]})

\* The connections of proxy_map in its iteration order.
ProxyConnections(c) ==
    SelectSeq(c.conn_order, LAMBDA x : x \in DOMAIN c.proxy_map)

RECURSIVE drop_all(_, _)
drop_all(c, conns) ==
    IF conns = <<>> THEN c ELSE drop_all(drop_node(c, Head(conns)), Tail(conns))

\* retry_bootstrap_with_blacklist forgetting to clear proxy_map
retry_bootstrap_keeps_proxies(c, conn) ==
    With(crust_call(drop_node(c, conn), "stop_bootstrap"), LAMBDA c1 :
        crust_call(drop_all([c1 EXCEPT !.state = "Disconnected"], ProxyConnections(c1)),
                   "bootstrap"))

\* Core::retry_bootstrap_with_blacklist
retry_bootstrap_with_blacklist(c, conn) ==
    With(crust_call(drop_node(c, conn), "stop_bootstrap"), LAMBDA c1 :
    With(drop_all([c1 EXCEPT !.state = "Disconnected"], ProxyConnections(c1)), LAMBDA c2 :
        crust_call([c2 EXCEPT !.proxy_map = EmptyMap], "bootstrap")))

\* Core::get_client_authority: <<found, authority>>
get_client_authority(c) ==
    IF DOMAIN c.proxy_map = {} THEN <<FALSE, Client(OurKey, 0)>>
    ELSE <<TRUE, Client(OurKey,
                        c.proxy_map[FirstIn(c.conn_order, DOMAIN c.proxy_map)].name)>>

----------------------------------------------------------------------------
(* Relocated names and sealed boxes.                                        *)

\* An injective encoding of a pair of byte strings.
Pair(a, b) == ((a + b) * (a + b + 1)) \div 2 + b

\* sha512 of the concatenation of two or three names: injective, and never the
\* hash of a single key or name (those are the small even and the odd numbers)
sha512_concat(names) ==
    IF Len(names) = 2
    THEN 4 * Pair(names[1], names[2]) + 2 * (Cardinality({OurKey} \cup PeerKeys) + 1)
    ELSE 4 * Pair(Pair(names[1], names[2]), names[3]) + 2 * (Cardinality({OurKey} \cup PeerKeys) + 2)

\* xor_name::closer_to_target(a, b, target)
closer_to_target(a, b, target) == Xor(a, target) < Xor(b, target)

\* close_nodes.sort_by(|a, b| if closer_to_target(a, b, original_name) { Less }
\* else { Greater }): a stable sort, each element put before the first one
\* the comparison does not order before it
RECURSIVE sort_by_closer(_, _)
sort_by_closer(v, target) ==
    IF v = <<>> THEN <<>>
    ELSE LET rest == sort_by_closer(Tail(v), target)
             before == {i \in 1..Len(rest) :
                           \A j \in 1..i : closer_to_target(rest[j], Head(v), target)}
         IN  SubSeq(rest, 1, Cardinality(before)) \o <<Head(v)>> \o
             SubSeq(rest, Cardinality(before) + 1, Len(rest))

\* calculate_relocated_name as it would be without the sort
calculate_relocated_name_unsorted(close_nodes, original_name) ==
    IF close_nodes = <<>> THEN <<FALSE, original_name>>
    ELSE <<TRUE, sha512_concat(<<original_name>> \o Take(close_nodes, 2))>>

\* utils::calculate_relocated_name: <<ok, name>>, Err(RoutingTableEmpty) if not ok
calculate_relocated_name(close_nodes, original_name) ==
    IF close_nodes = <<>> THEN <<FALSE, original_name>>
    ELSE <<TRUE, sha512_concat(<<original_name>> \o
                               Take(sort_by_closer(close_nodes, original_name), 2))>>

\* box_::seal(payload, nonce, their encrypting public key, our encrypting private
\* key): the keys of an id are named by its signing key
seal(nonce, their_key, our_key) == [nonce |-> nonce, to |-> their_key, from |-> our_key]

\* box_::open(box, nonce, their encrypting public key, our encrypting private key)
open(box, their_key, our_key) == box.to = our_key /\ box.from = their_key

----------------------------------------------------------------------------
(* The request and response contents (messages.rs).                         *)

GetNetworkNameRequest(current_id) == [tag |-> "GetNetworkName", id |-> current_id]
ExpectCloseNode(expect_id)        == [tag |-> "ExpectCloseNode", id |-> expect_id]
GetCloseGroupRequest              == [tag |-> "GetCloseGroup"]
Endpoints(box)                    == [tag |-> "Endpoints", box |-> box]
Connect                           == [tag |-> "Connect"]
GetPublicIdRequest                == [tag |-> "GetPublicId"]
GetPublicIdWithEndpointsRequest(box) == [tag |-> "GetPublicIdWithEndpoints", box |-> box]
\* Get, Put, Post, Delete (with a data request) and Refresh
UserRequest(tag, data, id)        == [tag |-> tag, data |-> data, id |-> id]

GetNetworkNameResponse(relocated_id) == [tag |-> "GetNetworkName", id |-> relocated_id]
GetPublicIdResponse(pid)          == [tag |-> "GetPublicId", id |-> pid]
GetPublicIdWithEndpointsResponse(pid, box) ==
    [tag |-> "GetPublicIdWithEndpoints", id |-> pid, box |-> box]
GetCloseGroupResponse(ids)        == [tag |-> "GetCloseGroup", ids |-> ids]
\* GetSuccess, PutSuccess, ..., GetFailure, ...
UserResponse(tag, data, id)       == [tag |-> tag, data |-> data, id |-> id]

\* Data::ImmutableData, by name
ImmutableData(n)  == [type |-> "ImmutableData", name |-> n]

\* Data::PlainData, by name
PlainData(n)      == [type |-> "PlainData", name |-> n]

UserRequestTags == {"Get", "Put", "Post", "Delete", "Refresh"}
UserResponseTags == {"GetSuccess", "PutSuccess", "PostSuccess", "DeleteSuccess",
                     "GetFailure", "PutFailure", "PostFailure", "DeleteFailure"}

\* Event::Request / Event::Response
RequestEvent(msg)  == [type |-> "Request", msg |-> msg]
ResponseEvent(msg) == [type |-> "Response", msg |-> msg]

----------------------------------------------------------------------------
(* Sending, forwarding and the request/response handlers.  In state Node a  *)
(* send within our close group handles the message locally, so these        *)
(* operators call each other as the functions of core.rs do.                *)

\* PARALLELISM of the crate is 4 of a GROUP_SIZE of 8
PARALLELISM == (GROUP_SIZE + 1) \div 2

\* RoutingTable::target_nodes: the entries a message for target is sent to
RtTargetNodes(rt, our, target) ==
    IF RtIsClose(rt, our, target) THEN RtOurCloseGroup(rt, our)
    ELSE IF target \in DOMAIN rt THEN <<target>>
    ELSE Take(SortByDistance(DOMAIN rt, target), PARALLELISM)

\* Core::close_group_names
close_group_names(c) == RtOurCloseGroup(c.routing_table, c.name)

\* Core::want_address_in_routing_table
want_address_in_routing_table(c, n) ==
    n \in DOMAIN c.routing_table \/ RtWantToAdd(c.routing_table, c.name, n)

\* SignedMessage::new(routing_msg, &self.full_id)
our_signed_message(c, routing_msg) ==
    SignedMessage(routing_msg, our_public_id(c), OurKey)

\* HopMessage::new(signed_msg, our name, our signing key)
our_hop_message(c, signed_msg) == HopMessage(signed_msg, c.name, OurKey)

\* signed_msg_security_check as it would be if a client's key were not compared
signed_msg_security_check_trusting(signed_msg) == "Ok"

\* Core::signed_msg_security_check
signed_msg_security_check(signed_msg) ==
    IF is_group(signed_msg.content.src) THEN "Ok"
    ELSE IF signed_msg.content.src.type = "Client"
            /\ signed_msg.content.src.client_key # signed_msg.public_id.key
         THEN "FailedSignature"
         ELSE "Ok"

\* relay_to_client as it would be if a client that is not connected were no
\* error
relay_to_client_unchecked(c, signed_msg, client_key) ==
    IF client_key \in DOMAIN c.client_map
    THEN crust_send(c, c.client_map[client_key][1], our_hop_message(c, signed_msg))
    ELSE c

\* Core::relay_to_client
relay_to_client(c, signed_msg, client_key) ==
    IF client_key \in DOMAIN c.client_map
    THEN crust_send(c, c.client_map[client_key][1], our_hop_message(c, signed_msg))
    ELSE Err(c, "ClientConnectionNotFound")

\* Core::connect
connect(c, box, their_key) ==
    IF open(box, their_key, OurKey) THEN crust_call(c, "connect")
    ELSE Err(c, "AsymmetricDecryptionFailure")

\* Core::get_from_cache: is the message a Get for immutable data we hold
get_from_cache(c, routing_msg) ==
    /\ routing_msg.kind = "Request"
    /\ routing_msg.content.tag = "Get"
    /\ routing_msg.content.data.type = "ImmutableData"
    /\ routing_msg.content.data.name \in DOMAIN c.data_cache

\* add_to_cache as it would be if data of every type were cached
add_to_cache_any_data(c, routing_msg) ==
    IF /\ routing_msg.kind = "Response"
       /\ routing_msg.content.tag = "GetSuccess"
    THEN [c EXCEPT !.data_cache =
              Insert(@, routing_msg.content.data.name, routing_msg.content.data)]
    ELSE c

\* Core::add_to_cache
add_to_cache(c, routing_msg) ==
    IF /\ routing_msg.kind = "Response"
       /\ routing_msg.content.tag = "GetSuccess"
       /\ routing_msg.content.data.type = "ImmutableData"
    THEN [c EXCEPT !.data_cache =
              Insert(@, routing_msg.content.data.name, routing_msg.content.data)]
    ELSE c

\* handle_expect_close_node_request as it would be if a cached name were
\* expected again without complaint
handle_expect_close_node_request_again(c, expect_id) ==
    [c EXCEPT !.node_id_cache = Insert(@, expect_id.name, expect_id)]

\* Core::handle_expect_close_node_request
handle_expect_close_node_request(c, expect_id) ==
    IF expect_id.name \in DOMAIN c.node_id_cache
    THEN Err([c EXCEPT !.node_id_cache = Insert(@, expect_id.name, expect_id)],
             "RejectedPublicId")
    ELSE [c EXCEPT !.node_id_cache = Insert(@, expect_id.name, expect_id)]

\* accumulate as it would be if every copy were taken for a quorum
accumulate_first_copy(c, message, public_id) ==
    With(IF c.state = "Node" THEN RtDynamicQuorumSize(c.routing_table)
         ELSE c.quorum_size, LAMBDA q :
    With((IF message \in DOMAIN c.message_accumulator
          THEN c.message_accumulator[message] ELSE {}) \cup {public_id.key}, LAMBDA new :
        <<[c EXCEPT !.quorum_size = q,
                    !.message_accumulator = Insert(@, message, new)],
          TRUE>>))

\* Core::accumulate: <<core, has the message reached the quorum>>
accumulate(c, message, public_id) ==
    With(IF c.state = "Node" THEN RtDynamicQuorumSize(c.routing_table)
         ELSE c.quorum_size, LAMBDA q :
    With((IF message \in DOMAIN c.message_accumulator
          THEN c.message_accumulator[message] ELSE {}) \cup {public_id.key}, LAMBDA new :
        <<[c EXCEPT !.quorum_size = q,
                    !.message_accumulator = Insert(@, message, new)],
          Cardinality(new) >= q>>))

RECURSIVE send(_, _)
RECURSIVE send_targets(_, _, _)
RECURSIVE handle_signed_message_for_node(_, _, _)
RECURSIVE handle_signed_message_for_node_rest(_, _)
RECURSIVE handle_routing_message(_, _, _)
RECURSIVE dispatch_request_response(_, _)
RECURSIVE handle_request_message(_, _)
RECURSIVE handle_response_message(_, _)
RECURSIVE send_endpoints(_, _, _, _)
RECURSIVE send_connect_request(_, _)
RECURSIVE handle_get_network_name_request(_, _, _, _, _)
RECURSIVE handle_get_network_name_response(_, _, _, _)
RECURSIVE handle_get_close_group_request(_, _, _, _)
RECURSIVE handle_get_close_group_response(_, _, _, _)
RECURSIVE handle_endpoints_from_client(_, _, _, _, _)
RECURSIVE handle_endpoints_from_node(_, _, _, _)
RECURSIVE handle_connect_request(_, _, _)
RECURSIVE handle_get_public_id(_, _, _)
RECURSIVE handle_get_public_id_response(_, _, _)
RECURSIVE handle_get_public_id_with_endpoints(_, _, _, _)
RECURSIVE handle_get_public_id_with_endpoints_response(_, _, _, _)

\* Core::send, the loop over the targets: one copy down the first connection
\* of each
send_targets(c, targets, hop_msg) ==
    IF targets = <<>> THEN c
    ELSE send_targets(
             crust_send(c, c.routing_table[Head(targets)].connections[1], hop_msg),
             Tail(targets), hop_msg)

\* Core::send
send(c, signed_msg) ==
    IF c.state = "Client"
    THEN IF signed_msg.content.src.type = "Client"
         THEN With({conn \in DOMAIN c.proxy_map :
                        c.proxy_map[conn].name = signed_msg.content.src.name},
                   LAMBDA found :
                  IF found # {}
                  THEN crust_send(c, FirstIn(c.conn_order, found),
                                  our_hop_message(c, signed_msg))
                  ELSE Err(c, "ProxyConnectionNotFound"))
         ELSE Err(c, "InvalidSource")
    ELSE With(send_targets(c, RtTargetNodes(c.routing_table, c.name,
                                            get_name(signed_msg.content.dst)),
                           our_hop_message(c, signed_msg)), LAMBDA c1 :
             IF /\ RtIsClose(c1.routing_table, c1.name, get_name(signed_msg.content.dst))
                /\ signed_msg \notin c1.signed_message_filter
             THEN handle_signed_message_for_node(
                      [c1 EXCEPT !.signed_message_filter = @ \cup {signed_msg}],
                      signed_msg, c1.name)
             ELSE c1)

\* Core::send_message
send_message(c, routing_msg) == send(c, our_signed_message(c, routing_msg))

\* result_tx.send(result)
result_send(c, r) == [c EXCEPT !.replies = Append(@, r)]

\* the reply to an action as it would be if every error of send_message were
\* reported
reply_every_error(c) ==
    IF c.res = "panic" THEN c
    ELSE result_send(c, IF c.res = "Ok" THEN "Ok" ELSE "Err")

\* Core::run, the match on the result of send_message: only an error of the
\* interface is reported to the caller
reply(c) ==
    IF c.res = "panic" THEN c
    ELSE result_send(c, IF c.res = "Interface" THEN "Err" ELSE "Ok")

\* Core::run, Action::NodeSendMessage
handle_node_send_message(c, content) == reply(send_message(c, content))

\* Core::run, Action::ClientSendRequest
handle_client_send_request(c, content, dst) ==
    IF get_client_authority(c)[1]
    THEN reply(send_message(c, RequestMessage(content, get_client_authority(c)[2], dst)))
    ELSE result_send(c, "Err(NotConnected)")

\* Core::send_connect_request
send_connect_request(c, dst_name) ==
    send(c, our_signed_message(c,
                RequestMessage(Connect, ManagedNode(c.name), ManagedNode(dst_name))))

\* Core::send_endpoints; the nonce is fresh, so the message is one we have not
\* seen before
send_endpoints(c, their_public_id, src, dst) ==
    With(CHOOSE n \in 0..Cardinality(c.signed_message_filter) :
             /\ our_signed_message(c, RequestMessage(
                    Endpoints(seal(n, their_public_id.key, OurKey)), src, dst))
                    \notin c.signed_message_filter
             /\ \A m \in 0..(n - 1) :
                    our_signed_message(c, RequestMessage(
                        Endpoints(seal(m, their_public_id.key, OurKey)), src, dst))
                        \in c.signed_message_filter,
         LAMBDA nonce :
             send(c, our_signed_message(c, RequestMessage(
                         Endpoints(seal(nonce, their_public_id.key, OurKey)), src, dst))))

\* Core::handle_signed_message_for_node, up to the cache handling
handle_signed_message_for_node(c, signed_msg, hop_name) ==
    With(IF /\ signed_msg.public_id.name \notin c.connection_filter
            /\ RtWantToAdd(c.routing_table, c.name, signed_msg.public_id.name)
         THEN Discard(send_connect_request(
                  [c EXCEPT !.connection_filter = @ \cup {signed_msg.public_id.name}],
                  signed_msg.public_id.name))
         ELSE [c EXCEPT !.connection_filter = @ \cup {signed_msg.public_id.name}],
         LAMBDA c2 :
        IF c2.res = "panic" THEN c2
        ELSE IF RtIsClose(c2.routing_table, c2.name, get_name(signed_msg.content.dst))
        THEN IF signed_msg_security_check(signed_msg) # "Ok"
             THEN Err(c2, signed_msg_security_check(signed_msg))
             ELSE IF is_group(signed_msg.content.dst)
             THEN Try(send(c2, signed_msg), LAMBDA c3 :
                      handle_signed_message_for_node_rest(c3, signed_msg))
             ELSE IF c2.name # get_name(signed_msg.content.dst)
             THEN send(c2, signed_msg)
             ELSE IF signed_msg.content.dst.type = "Client"
             THEN relay_to_client(c2, signed_msg, signed_msg.content.dst.client_key)
             ELSE handle_signed_message_for_node_rest(c2, signed_msg)
        ELSE IF /\ signed_msg.content.src.type = "Client"
                /\ signed_msg.content.src.name = c2.name
             THEN send(c2, signed_msg)
             \* the direction check is computed and not enforced
             ELSE handle_signed_message_for_node_rest(c2, signed_msg))

\* Core::handle_signed_message_for_node, from the cache handling on
handle_signed_message_for_node_rest(c, signed_msg) ==
    IF get_from_cache(c, signed_msg.content)
    THEN send(c, our_signed_message(c,
             ResponseMessage(
                 UserResponse("GetSuccess",
                              c.data_cache[signed_msg.content.content.data.name],
                              signed_msg.content.content.id),
                 ManagedNode(c.name), signed_msg.content.src)))
    ELSE With(add_to_cache(c, signed_msg.content), LAMBDA c1 :
             IF ~RtIsClose(c1.routing_table, c1.name, get_name(signed_msg.content.dst))
             THEN send(c1, signed_msg)
             ELSE handle_routing_message(c1, signed_msg.content, signed_msg.public_id))

\* dispatch_request_response as it would be if every message were taken for
\* a request
dispatch_request_response_by_content(c, routing_msg) ==
    handle_request_message(c, routing_msg)

\* Core::dispatch_request_response
dispatch_request_response(c, routing_msg) ==
    IF routing_msg.kind = "Request" THEN handle_request_message(c, routing_msg)
    ELSE handle_response_message(c, routing_msg)

\* handle_routing_message as it would be if GetCloseGroup responses were
\* accumulated like the other messages of groups
handle_routing_message_accumulates_all(c, routing_msg, public_id) ==
    IF is_group(routing_msg.src) /\ routing_msg \in c.grp_msg_filter
    THEN Err(c, "FilterCheckFailed")
    ELSE IF is_group(routing_msg.src)
    THEN With(accumulate(c, routing_msg, public_id), LAMBDA a :
             IF a[2]
             THEN dispatch_request_response(
                      [a[1] EXCEPT !.grp_msg_filter = @ \cup {routing_msg}], routing_msg)
             ELSE a[1])
    ELSE dispatch_request_response(c, routing_msg)

\* handle_routing_message as it would be if the messages of every source
\* were accumulated
handle_routing_message_accumulates_sources(c, routing_msg, public_id) ==
    IF is_group(routing_msg.src) /\ routing_msg \in c.grp_msg_filter
    THEN Err(c, "FilterCheckFailed")
    ELSE IF ~(routing_msg.kind = "Response" /\ routing_msg.content.tag = "GetCloseGroup")
    THEN With(accumulate(c, routing_msg, public_id), LAMBDA a :
             IF a[2]
             THEN dispatch_request_response(
                      [a[1] EXCEPT !.grp_msg_filter = @ \cup {routing_msg}], routing_msg)
             ELSE a[1])
    ELSE dispatch_request_response(c, routing_msg)

\* Core::handle_routing_message
handle_routing_message(c, routing_msg, public_id) ==
    IF is_group(routing_msg.src) /\ routing_msg \in c.grp_msg_filter
    THEN Err(c, "FilterCheckFailed")
    ELSE IF /\ is_group(routing_msg.src)
            /\ ~(routing_msg.kind = "Response" /\ routing_msg.content.tag = "GetCloseGroup")
    THEN With(accumulate(c, routing_msg, public_id), LAMBDA a :
             IF a[2]
             THEN dispatch_request_response(
                      [a[1] EXCEPT !.grp_msg_filter = @ \cup {routing_msg}], routing_msg)
             ELSE a[1])
    ELSE dispatch_request_response(c, routing_msg)

\* Core::handle_request_message
handle_request_message(c, m) ==
    IF m.content.tag = "GetNetworkName" /\ m.src.type = "Client"
       /\ m.dst.type = "NaeManager"
    THEN handle_get_network_name_request(c, m.content.id, m.src.client_key,
                                         m.src.name, m.dst.name)
    ELSE IF m.content.tag = "ExpectCloseNode" /\ m.src.type = "NaeManager"
            /\ m.dst.type = "NodeManager"
    THEN handle_expect_close_node_request(c, m.content.id)
    ELSE IF m.content.tag = "GetCloseGroup" /\ m.src.type = "Client"
            /\ m.dst.type = "NodeManager"
    THEN handle_get_close_group_request(c, m.src.client_key, m.src.name, m.dst.name)
    ELSE IF m.content.tag = "Endpoints" /\ m.src.type = "Client"
            /\ m.dst.type = "ManagedNode"
    THEN handle_endpoints_from_client(c, m.content.box, m.src.client_key,
                                      m.src.name, m.dst.name)
    ELSE IF m.content.tag = "Endpoints" /\ m.src.type = "ManagedNode"
            /\ m.dst.type \in {"Client", "ManagedNode"}
    THEN handle_endpoints_from_node(c, m.content.box, m.src.name, m.dst)
    ELSE IF m.content.tag = "Connect" /\ m.src.type = "ManagedNode"
            /\ m.dst.type = "ManagedNode"
    THEN handle_connect_request(c, m.src.name, m.dst.name)
    ELSE IF m.content.tag = "GetPublicId" /\ m.src.type = "ManagedNode"
            /\ m.dst.type = "NodeManager"
    THEN handle_get_public_id(c, m.src.name, m.dst.name)
    ELSE IF m.content.tag = "GetPublicIdWithEndpoints" /\ m.src.type = "ManagedNode"
            /\ m.dst.type = "NodeManager"
    THEN handle_get_public_id_with_endpoints(c, m.content.box, m.src.name, m.dst.name)
    ELSE IF m.content.tag \in UserRequestTags
    THEN send_event(c, RequestEvent(m))
    ELSE Err(c, "BadAuthority")

\* Core::handle_response_message
handle_response_message(c, m) ==
    IF m.content.tag = "GetNetworkName" /\ m.src.type = "NaeManager"
       /\ m.dst.type = "Client"
    THEN handle_get_network_name_response(c, m.content.id, m.dst.client_key, m.dst.name)
    ELSE IF m.content.tag = "GetPublicId" /\ m.src.type = "NodeManager"
            /\ m.dst.type = "ManagedNode"
    THEN handle_get_public_id_response(c, m.content.id, m.dst.name)
    ELSE IF m.content.tag = "GetPublicIdWithEndpoints" /\ m.src.type = "NodeManager"
            /\ m.dst.type = "ManagedNode"
    THEN handle_get_public_id_with_endpoints_response(c, m.content.id, m.content.box,
                                                      m.dst.name)
    ELSE IF m.content.tag = "GetCloseGroup" /\ m.src.type = "NodeManager"
            /\ m.dst.type = "Client"
    THEN handle_get_close_group_response(c, m.content.ids, m.dst.client_key, m.dst.name)
    ELSE IF m.content.tag \in UserResponseTags
    THEN send_event(c, ResponseEvent(m))
    ELSE Err(c, "BadAuthority")

\* handle_get_network_name_request as it would be without the test of the
\* destination
handle_get_network_name_request_anywhere(c, their_public_id, client_key, proxy_name, dst_name) ==
    With(calculate_relocated_name(close_group_names(c) \o <<c.name>>,
                                  their_public_id.name), LAMBDA r :
         IF ~r[1] THEN Err(c, "RoutingTableEmpty")
         ELSE Try(send(c, our_signed_message(c,
                      ResponseMessage(
                          GetNetworkNameResponse(PublicId(their_public_id.key, r[2])),
                          NaeManager(dst_name), Client(client_key, proxy_name)))),
                  LAMBDA c1 :
                      send(c1, our_signed_message(c1,
                          RequestMessage(
                              ExpectCloseNode(PublicId(their_public_id.key, r[2])),
                              NaeManager(dst_name), NodeManager(r[2]))))))

\* Core::handle_get_network_name_request
handle_get_network_name_request(c, their_public_id, client_key, proxy_name, dst_name) ==
    IF NameOfKey(client_key) # dst_name THEN Err(c, "InvalidDestination")
    ELSE With(calculate_relocated_name(close_group_names(c) \o <<c.name>>,
                                       their_public_id.name), LAMBDA r :
         IF ~r[1] THEN Err(c, "RoutingTableEmpty")
         ELSE Try(send(c, our_signed_message(c,
                      ResponseMessage(
                          GetNetworkNameResponse(PublicId(their_public_id.key, r[2])),
                          NaeManager(dst_name), Client(client_key, proxy_name)))),
                  LAMBDA c1 :
                      send(c1, our_signed_message(c1,
                          RequestMessage(
                              ExpectCloseNode(PublicId(their_public_id.key, r[2])),
                              NaeManager(dst_name), NodeManager(r[2]))))))

\* Core::handle_get_network_name_response
handle_get_network_name_response(c, relocated_id, client_key, proxy_name) ==
    Try(set_self_node_name(c, relocated_id.name), LAMBDA c1 :
        send(c1, our_signed_message(c1,
                RequestMessage(GetCloseGroupRequest, Client(client_key, proxy_name),
                               NodeManager(relocated_id.name)))))

\* The PublicIds of the entries named, in order.
RECURSIVE public_ids_of(_, _)
public_ids_of(rt, names) ==
    IF names = <<>> THEN <<>>
    ELSE <<rt[Head(names)].public_id>> \o public_ids_of(rt, Tail(names))

\* Core::handle_get_close_group_request
handle_get_close_group_request(c, client_key, proxy_name, dst_name) ==
    send(c, our_signed_message(c,
            ResponseMessage(
                GetCloseGroupResponse(
                    Append(public_ids_of(c.routing_table, close_group_names(c)),
                           our_public_id(c))),
                NodeManager(dst_name), Client(client_key, proxy_name))))

\* Core::handle_get_close_group_response, the loop over close_group_ids
RECURSIVE send_endpoints_to_all(_, _, _, _)
send_endpoints_to_all(c, ids, client_key, proxy_name) ==
    IF ids = <<>> THEN c
    ELSE Try(IF /\ Head(ids).name \notin DOMAIN c.node_id_cache
                /\ RtWantToAdd(c.routing_table, c.name, Head(ids).name)
             THEN send_endpoints(
                      [c EXCEPT !.node_id_cache = Insert(@, Head(ids).name, Head(ids))],
                      Head(ids), Client(client_key, proxy_name),
                      ManagedNode(Head(ids).name))
             ELSE [c EXCEPT !.node_id_cache = Insert(@, Head(ids).name, Head(ids))],
             LAMBDA c2 : send_endpoints_to_all(c2, Tail(ids), client_key, proxy_name))

\* Core::handle_get_close_group_response
handle_get_close_group_response(c, close_group_ids, client_key, proxy_name) ==
    send_endpoints_to_all(start_listening(c), close_group_ids, client_key, proxy_name)

\* Core::handle_endpoints_from_client: the first cached id with the client's
\* key; the cache's order is not modelled, name_low picks the end to start from
handle_endpoints_from_client(c, box, client_key, proxy_name, dst_name) ==
    With({n \in DOMAIN c.node_id_cache : c.node_id_cache[n].key = client_key},
         LAMBDA found :
        IF found = {} THEN Err(c, "RejectedPublicId")
        ELSE With(IF c.name_low
                  THEN CHOOSE x \in found : \A y \in found : x <= y
                  ELSE CHOOSE x \in found : \A y \in found : x >= y, LAMBDA n :
                 IF want_address_in_routing_table(c, n)
                 THEN Try(connect(c, box, c.node_id_cache[n].key), LAMBDA c1 :
                          send_endpoints(c1, c.node_id_cache[n], ManagedNode(dst_name),
                                         Client(client_key, proxy_name)))
                 ELSE Err(c, "RefusedFromRoutingTable")))

\* Core::handle_endpoints_from_node
handle_endpoints_from_node(c, box, src_name, dst) ==
    IF want_address_in_routing_table(c, src_name)
    THEN IF src_name \in DOMAIN c.node_id_cache
         THEN connect(c, box, c.node_id_cache[src_name].key)
         ELSE send(c, our_signed_message(c,
                      RequestMessage(GetPublicIdWithEndpointsRequest(box),
                                     dst, ManagedNode(src_name))))
    ELSE Err([c EXCEPT !.node_id_cache = Remove(@, src_name)],
             "RefusedFromRoutingTable")

\* handle_connect_request as it would be if the PublicId were asked for also
\* of a name the routing table does not want
handle_connect_request_as_tabled(c, src_name, dst_name) ==
    IF want_address_in_routing_table(c, src_name) /\ src_name \in DOMAIN c.node_id_cache
    THEN send_endpoints(c, c.node_id_cache[src_name], ManagedNode(c.name),
                        ManagedNode(src_name))
    ELSE send(c, our_signed_message(c,
                 RequestMessage(GetPublicIdRequest, ManagedNode(dst_name),
                                NodeManager(src_name))))

\* Core::handle_connect_request
handle_connect_request(c, src_name, dst_name) ==
    IF ~want_address_in_routing_table(c, src_name)
    THEN Err(c, "RefusedFromRoutingTable")
    ELSE IF src_name \in DOMAIN c.node_id_cache
    THEN send_endpoints(c, c.node_id_cache[src_name], ManagedNode(c.name),
                        ManagedNode(src_name))
    ELSE send(c, our_signed_message(c,
                 RequestMessage(GetPublicIdRequest, ManagedNode(dst_name),
                                NodeManager(src_name))))

\* Core::handle_get_public_id
handle_get_public_id(c, src_name, dst_name) ==
    IF dst_name \in Range(close_group_names(c))
    THEN send(c, our_signed_message(c,
                 ResponseMessage(GetPublicIdResponse(c.routing_table[dst_name].public_id),
                                 NodeManager(dst_name), ManagedNode(src_name))))
    ELSE Err(c, "RejectedPublicId")

\* Core::handle_get_public_id_response
handle_get_public_id_response(c, public_id, dst_name) ==
    IF ~want_address_in_routing_table(c, public_id.name)
    THEN Err(c, "RefusedFromRoutingTable")
    ELSE Try(send_endpoints(c, public_id, ManagedNode(dst_name),
                            ManagedNode(public_id.name)), LAMBDA c1 :
             [c1 EXCEPT !.node_id_cache = Insert(@, public_id.name, public_id)])

\* Core::handle_get_public_id_with_endpoints
handle_get_public_id_with_endpoints(c, box, src_name, dst_name) ==
    IF dst_name \in Range(close_group_names(c))
    THEN send(c, our_signed_message(c,
                 ResponseMessage(
                     GetPublicIdWithEndpointsResponse(
                         c.routing_table[dst_name].public_id, box),
                     NodeManager(dst_name), ManagedNode(src_name))))
    ELSE Err(c, "RejectedPublicId")

\* Core::handle_get_public_id_with_endpoints_response
handle_get_public_id_with_endpoints_response(c, public_id, box, dst_name) ==
    IF ~want_address_in_routing_table(c, public_id.name)
    THEN Err(c, "RefusedFromRoutingTable")
    ELSE Try(send_endpoints(c, public_id, ManagedNode(dst_name),
                            ManagedNode(public_id.name)), LAMBDA c1 :
             connect([c1 EXCEPT !.node_id_cache = Insert(@, public_id.name, public_id)],
                     box, public_id.key))

----------------------------------------------------------------------------
(* Messages received from the transport.                                    *)

\* Core::handle_signed_message_for_client
handle_signed_message_for_client(c, signed_msg) ==
    IF /\ signed_msg.content.dst.type = "Client"
       /\ signed_msg.content.dst.client_key = OurKey
    THEN handle_routing_message(c, signed_msg.content, signed_msg.public_id)
    ELSE Err(c, "BadAuthority")

\* handle_signed_message as it would be if signed_message_filter let a
\* message through a second time
handle_signed_message_unfiltered(c, signed_msg, hop_name) ==
    IF ~check_integrity(signed_msg) THEN Err(c, "FailedSignature")
    ELSE With([c EXCEPT !.signed_message_filter = @ \cup {signed_msg}], LAMBDA c1 :
        IF c1.state = "Node"
        THEN IF /\ signed_msg.content.kind = "Request"
                /\ signed_msg.content.content.tag = "GetNetworkName"
                /\ signed_msg.content.src.type = "Client"
                /\ signed_msg.content.src.client_key \in DOMAIN c1.client_map
                /\ c1.client_map[signed_msg.content.src.client_key][2]
             THEN Err(c1, "ClientConnectionNotFound")
             ELSE Try(IF /\ signed_msg.content.dst.type = "Client"
                         /\ signed_msg.content.dst.client_key = OurKey
                         /\ \/ /\ signed_msg.content.kind = "Request"
                               /\ signed_msg.content.content.tag = "Endpoints"
                            \/ /\ signed_msg.content.kind = "Response"
                               /\ signed_msg.content.content.tag = "GetCloseGroup"
                      THEN handle_signed_message_for_client(c1, signed_msg)
                      ELSE c1,
                      LAMBDA c2 : handle_signed_message_for_node(c2, signed_msg, hop_name))
        ELSE IF c1.state = "Client"
        THEN handle_signed_message_for_client(c1, signed_msg)
        ELSE Err(c1, "InvalidStateForOperation"))

\* handle_signed_message as it would be if the GetNetworkName request of a
\* client with client_restriction were handled like any other
handle_signed_message_of_any_client(c, signed_msg, hop_name) ==
    IF ~check_integrity(signed_msg) THEN Err(c, "FailedSignature")
    ELSE IF signed_msg \in c.signed_message_filter THEN Err(c, "FilterCheckFailed")
    ELSE With([c EXCEPT !.signed_message_filter = @ \cup {signed_msg}], LAMBDA c1 :
        IF c1.state = "Node"
        THEN Try(IF /\ signed_msg.content.dst.type = "Client"
                    /\ signed_msg.content.dst.client_key = OurKey
                    /\ \/ /\ signed_msg.content.kind = "Request"
                          /\ signed_msg.content.content.tag = "Endpoints"
                       \/ /\ signed_msg.content.kind = "Response"
                          /\ signed_msg.content.content.tag = "GetCloseGroup"
                 THEN handle_signed_message_for_client(c1, signed_msg)
                 ELSE c1,
                 LAMBDA c2 : handle_signed_message_for_node(c2, signed_msg, hop_name))
        ELSE IF c1.state = "Client"
        THEN handle_signed_message_for_client(c1, signed_msg)
        ELSE Err(c1, "InvalidStateForOperation"))

\* Core::handle_signed_message
handle_signed_message(c, signed_msg, hop_name) ==
    IF ~check_integrity(signed_msg) THEN Err(c, "FailedSignature")
    ELSE IF signed_msg \in c.signed_message_filter THEN Err(c, "FilterCheckFailed")
    ELSE With([c EXCEPT !.signed_message_filter = @ \cup {signed_msg}], LAMBDA c1 :
        IF c1.state = "Node"
        THEN IF /\ signed_msg.content.kind = "Request"
                /\ signed_msg.content.content.tag = "GetNetworkName"
                /\ signed_msg.content.src.type = "Client"
                /\ signed_msg.content.src.client_key \in DOMAIN c1.client_map
                /\ c1.client_map[signed_msg.content.src.client_key][2]
             THEN Err(c1, "ClientConnectionNotFound")
             ELSE Try(IF /\ signed_msg.content.dst.type = "Client"
                         /\ signed_msg.content.dst.client_key = OurKey
                         /\ \/ /\ signed_msg.content.kind = "Request"
                               /\ signed_msg.content.content.tag = "Endpoints"
                            \/ /\ signed_msg.content.kind = "Response"
                               /\ signed_msg.content.content.tag = "GetCloseGroup"
                      THEN handle_signed_message_for_client(c1, signed_msg)
                      ELSE c1,
                      LAMBDA c2 : handle_signed_message_for_node(c2, signed_msg, hop_name))
        ELSE IF c1.state = "Client"
        THEN handle_signed_message_for_client(c1, signed_msg)
        ELSE Err(c1, "InvalidStateForOperation"))

\* Core::handle_hop_message: <<is the hop accepted, was its signature verified>>
hop_check(c, hop_msg, conn) ==
    IF c.state = "Node"
    THEN IF hop_msg.name \in DOMAIN c.routing_table
         THEN <<hop_verify(hop_msg, c.routing_table[hop_msg.name].public_id.key), TRUE>>
         ELSE IF \E k \in DOMAIN c.client_map : c.client_map[k][1] = conn
         THEN <<hop_verify(hop_msg,
                    FirstIn(c.key_order,
                            {k \in DOMAIN c.client_map : c.client_map[k][1] = conn})),
                TRUE>>
         ELSE <<FALSE, FALSE>>
    ELSE IF c.state = "Client"
    THEN IF conn \in DOMAIN c.proxy_map
         THEN <<hop_verify(hop_msg, c.proxy_map[conn].key), TRUE>>
         ELSE <<TRUE, FALSE>>
    ELSE <<FALSE, FALSE>>

\* Core::handle_hop_message
handle_hop_message(c, hop_msg, conn) ==
    IF hop_check(c, hop_msg, conn)[1]
    THEN handle_signed_message(c, hop_msg.content, hop_msg.name)
    ELSE IF c.state \notin {"Node", "Client"} THEN Err(c, "InvalidStateForOperation")
    ELSE IF hop_check(c, hop_msg, conn)[2] THEN Err(c, "FailedSignature")
    ELSE Err(c, "UnknownConnection")

\* Core::relocate
relocate(c) ==
    IF ~get_client_authority(c)[1] THEN Err(c, "NotBootstrapped")
    ELSE send(c, our_signed_message(c,
                 RequestMessage(GetNetworkNameRequest(our_public_id(c)),
                                get_client_authority(c)[2], NaeManager(c.name))))

\* handle_bootstrap_identify as it would be if the proxy were recorded without
\* the change of state
handle_bootstrap_identify_keeps_state(c, msg, conn) ==
    IF IsUnrelocated(msg.public_id) THEN drop_node(c, conn)
    ELSE IF conn \in DOMAIN c.proxy_map
    THEN [drop_node(c, conn) EXCEPT !.proxy_map = Remove(@, conn)]
    ELSE With([c EXCEPT !.proxy_map = Insert(@, conn, msg.public_id),
                        !.quorum_size = msg.current_quorum_size], LAMBDA c1 :
             IF c1.client_restriction THEN send_event(c1, [type |-> "Connected"])
             ELSE relocate(c1))

\* handle_bootstrap_identify as it would be if a restricted client relocated too
handle_bootstrap_identify_relocates(c, msg, conn) ==
    IF IsUnrelocated(msg.public_id) THEN drop_node(c, conn)
    ELSE IF conn \in DOMAIN c.proxy_map
    THEN [drop_node(c, conn) EXCEPT !.proxy_map = Remove(@, conn)]
    ELSE relocate([c EXCEPT !.proxy_map = Insert(@, conn, msg.public_id),
                            !.state = "Client",
                            !.quorum_size = msg.current_quorum_size])

\* Core::handle_direct_message, BootstrapIdentify
handle_bootstrap_identify(c, msg, conn) ==
    IF IsUnrelocated(msg.public_id) THEN drop_node(c, conn)
    ELSE IF conn \in DOMAIN c.proxy_map
    THEN [drop_node(c, conn) EXCEPT !.proxy_map = Remove(@, conn)]
    ELSE With([c EXCEPT !.proxy_map = Insert(@, conn, msg.public_id),
                        !.state = "Client",
                        !.quorum_size = msg.current_quorum_size], LAMBDA c1 :
             IF c1.client_restriction THEN send_event(c1, [type |-> "Connected"])
             ELSE relocate(c1))

\* Core::handle_direct_message, BootstrapDeny
handle_bootstrap_deny(c, conn) == retry_bootstrap_with_blacklist(c, conn)

\* admits with the limit on joining nodes applied only while the table is small
admits_any_joiner_at_full_table(c, restriction) ==
    IF restriction THEN ~(RtLen(c.routing_table) < GROUP_SIZE)
    ELSE RtLen(c.routing_table) >= GROUP_SIZE \/ joining_nodes_num(c) < GROUP_SIZE

\* admits as it would be if clients were not asked for a full routing table
admits_every_client(c, restriction) ==
    IF restriction THEN TRUE
    ELSE ~(/\ ~(RtLen(c.routing_table) < GROUP_SIZE /\ joining_nodes_num(c) < GROUP_SIZE)
           /\ joining_nodes_num(c) >= MAX_JOINING_NODES)

\* admits as it would be if joining nodes were not counted
admits_every_joiner(c, restriction) ==
    IF restriction THEN ~(RtLen(c.routing_table) < GROUP_SIZE) ELSE TRUE

\* Core::handle_direct_message, ClientIdentify: is the client admitted
admits(c, restriction) ==
    IF restriction THEN ~(RtLen(c.routing_table) < GROUP_SIZE)
    ELSE ~(/\ ~(RtLen(c.routing_table) < GROUP_SIZE /\ joining_nodes_num(c) < GROUP_SIZE)
           /\ joining_nodes_num(c) >= MAX_JOINING_NODES)

\* handle_client_identify as it would be if a relocated id were taken too
handle_client_identify_any_name(c, msg, conn) ==
    IF ~verify_signed_public_id(msg) THEN drop_node(c, conn)
    ELSE IF ~admits(c, msg.client_restriction) THEN bootstrap_deny(c, conn)
    ELSE With([c EXCEPT !.client_map = Insert(@, msg.public_id.key,
                                              <<conn, msg.client_restriction>>)],
              LAMBDA c1 :
             Discard(bootstrap_identify(
                 IF msg.public_id.key \in DOMAIN c.client_map
                 THEN drop_node(c1, c.client_map[msg.public_id.key][1]) ELSE c1,
                 conn)))

\* Core::handle_direct_message, ClientIdentify
handle_client_identify(c, msg, conn) ==
    IF ~verify_signed_public_id(msg) THEN drop_node(c, conn)
    ELSE IF ~IsUnrelocated(msg.public_id) THEN drop_node(c, conn)
    ELSE IF ~admits(c, msg.client_restriction) THEN bootstrap_deny(c, conn)
    ELSE With([c EXCEPT !.client_map = Insert(@, msg.public_id.key,
                                              <<conn, msg.client_restriction>>)],
              LAMBDA c1 :
             Discard(bootstrap_identify(
                 IF msg.public_id.key \in DOMAIN c.client_map
                 THEN drop_node(c1, c.client_map[msg.public_id.key][1]) ELSE c1,
                 conn)))

\* Core::handle_direct_message, NodeIdentify: the Churn for a new close node
churn_for_added(c, public_id) ==
    IF RtIsClose(c.routing_table, c.name, public_id.name)
    THEN send_event(c, Churn(from_added_node(public_id.name),
             IF RtLen(c.routing_table) >= GROUP_SIZE
             THEN {close_group_names(c)[Len(close_group_names(c))]}
             ELSE {}))
    ELSE c

\* handle_node_identify as it would be if a full routing table left the
\* proxies connected
handle_node_identify_keeps_proxies(c, msg, conn) ==
    IF ~verify_signed_public_id(msg) THEN drop_node(c, conn)
    ELSE IF msg.public_id.name \notin DOMAIN c.node_id_cache THEN drop_node(c, conn)
    ELSE IF c.node_id_cache[msg.public_id.name] # msg.public_id THEN drop_node(c, conn)
    ELSE IF msg.public_id.name \in DOMAIN c.routing_table
    THEN With(RtAddConnection(c.routing_table, msg.public_id.name, conn), LAMBDA r :
             IF ~r[2] THEN c
             ELSE Discard(node_identify([c EXCEPT !.routing_table = r[1]], conn)))
    ELSE With(churn_for_added(c, msg.public_id), LAMBDA c1 :
         With(RtAddNode(c1.routing_table, c1.name, NodeInfo(msg.public_id, <<conn>>)),
              LAMBDA r :
             IF ~r[2]
             THEN [drop_node(c1, conn) EXCEPT
                       !.node_id_cache = Remove(@, msg.public_id.name)]
             ELSE With([c1 EXCEPT !.routing_table = r[1]], LAMBDA c2 :
                      Discard(node_identify(
                          [c2 EXCEPT !.state = "Node"],
                          conn)))))

\* handle_node_identify as it would be if the cached id were not compared
handle_node_identify_any_cached(c, msg, conn) ==
    IF ~verify_signed_public_id(msg) THEN drop_node(c, conn)
    ELSE IF msg.public_id.name \notin DOMAIN c.node_id_cache THEN drop_node(c, conn)
    ELSE IF msg.public_id.name \in DOMAIN c.routing_table
    THEN With(RtAddConnection(c.routing_table, msg.public_id.name, conn), LAMBDA r :
             IF ~r[2] THEN c
             ELSE Discard(node_identify([c EXCEPT !.routing_table = r[1]], conn)))
    ELSE With(churn_for_added(c, msg.public_id), LAMBDA c1 :
         With(RtAddNode(c1.routing_table, c1.name, NodeInfo(msg.public_id, <<conn>>)),
              LAMBDA r :
             IF ~r[2]
             THEN [drop_node(c1, conn) EXCEPT
                       !.node_id_cache = Remove(@, msg.public_id.name)]
             ELSE With([c1 EXCEPT !.routing_table = r[1]], LAMBDA c2 :
                      Discard(node_identify(
                          [(IF /\ RtLen(c2.routing_table) >= GROUP_SIZE
                               /\ DOMAIN c2.proxy_map # {}
                            THEN [drop_all(c2, ProxyConnections(c2))
                                      EXCEPT !.proxy_map = EmptyMap]
                            ELSE c2) EXCEPT !.state = "Node"],
                          conn)))))

\* handle_node_identify as it would be if it answered also on a connection
\* the routing table already has
handle_node_identify_always_answers(c, msg, conn) ==
    IF ~verify_signed_public_id(msg) THEN drop_node(c, conn)
    ELSE IF msg.public_id.name \notin DOMAIN c.node_id_cache THEN drop_node(c, conn)
    ELSE IF c.node_id_cache[msg.public_id.name] # msg.public_id THEN drop_node(c, conn)
    ELSE IF msg.public_id.name \in DOMAIN c.routing_table
    THEN With(RtAddConnection(c.routing_table, msg.public_id.name, conn), LAMBDA r :
             Discard(node_identify([c EXCEPT !.routing_table = r[1]], conn)))
    ELSE With(churn_for_added(c, msg.public_id), LAMBDA c1 :
         With(RtAddNode(c1.routing_table, c1.name, NodeInfo(msg.public_id, <<conn>>)),
              LAMBDA r :
             IF ~r[2]
             THEN [drop_node(c1, conn) EXCEPT
                       !.node_id_cache = Remove(@, msg.public_id.name)]
             ELSE With([c1 EXCEPT !.routing_table = r[1]], LAMBDA c2 :
                      Discard(node_identify(
                          [(IF /\ RtLen(c2.routing_table) >= GROUP_SIZE
                               /\ DOMAIN c2.proxy_map # {}
                            THEN [drop_all(c2, ProxyConnections(c2))
                                      EXCEPT !.proxy_map = EmptyMap]
                            ELSE c2) EXCEPT !.state = "Node"],
                          conn)))))

\* Core::handle_direct_message, NodeIdentify
handle_node_identify(c, msg, conn) ==
    IF ~verify_signed_public_id(msg) THEN drop_node(c, conn)
    ELSE IF msg.public_id.name \notin DOMAIN c.node_id_cache THEN drop_node(c, conn)
    ELSE IF c.node_id_cache[msg.public_id.name] # msg.public_id THEN drop_node(c, conn)
    ELSE IF msg.public_id.name \in DOMAIN c.routing_table
    THEN With(RtAddConnection(c.routing_table, msg.public_id.name, conn), LAMBDA r :
             IF ~r[2] THEN c
             ELSE Discard(node_identify([c EXCEPT !.routing_table = r[1]], conn)))
    ELSE With(churn_for_added(c, msg.public_id), LAMBDA c1 :
         With(RtAddNode(c1.routing_table, c1.name, NodeInfo(msg.public_id, <<conn>>)),
              LAMBDA r :
             IF ~r[2]
             THEN [drop_node(c1, conn) EXCEPT
                       !.node_id_cache = Remove(@, msg.public_id.name)]
             ELSE With([c1 EXCEPT !.routing_table = r[1]], LAMBDA c2 :
                      Discard(node_identify(
                          [(IF /\ RtLen(c2.routing_table) >= GROUP_SIZE
                               /\ DOMAIN c2.proxy_map # {}
                            THEN [drop_all(c2, ProxyConnections(c2))
                                      EXCEPT !.proxy_map = EmptyMap]
                            ELSE c2) EXCEPT !.state = "Node"],
                          conn)))))

\* Core::handle_direct_message
handle_direct_message(c, msg, conn) ==
    IF msg.type = "BootstrapIdentify" THEN handle_bootstrap_identify(c, msg, conn)
    ELSE IF msg.type = "BootstrapDeny" THEN handle_bootstrap_deny(c, conn)
    ELSE IF msg.type = "ClientIdentify" THEN handle_client_identify(c, msg, conn)
    ELSE handle_node_identify(c, msg, conn)

\* Core::handle_new_message
handle_new_message(c, msg, conn) ==
    IF msg.type = "HopMessage" THEN handle_hop_message(c, msg, conn)
    ELSE IF msg.type = "undecodable" THEN Err(c, "SerialisationError")
    ELSE handle_direct_message(c, msg, conn)

----------------------------------------------------------------------------
(* The peers and what they can send.                                        *)

\* The peer with the least key.
FirstPeer == CHOOSE k \in PeerKeys : \A j \in PeerKeys : k <= j

\* The name a peer takes when it becomes a node.
RelocatedName(k) == sha512(NameOfKey(k))

\* The ids under which the peers present themselves, before and after relocation.
PeerIds ==
    {PublicId(k, NameOfKey(k)) : k \in PeerKeys} \cup
    {PublicId(k, RelocatedName(k)) : k \in PeerKeys}

RelocatedPeerIds == {p \in PeerIds : ~IsUnrelocated(p)}

\* Message::DirectMessage, as the peers can send it
DirectMessages ==
    {BootstrapIdentify(p, q) : p \in PeerIds, q \in {1, QUORUM_SIZE}} \cup
    {BootstrapDeny} \cup
    {ClientIdentify(p, s, r) : p \in PeerIds, s \in PeerKeys, r \in BOOLEAN} \cup
    {NodeIdentify(p, s) : p \in PeerIds, s \in PeerKeys}

\* RoutingMessage, as the peers can send it to a core named our_name
RoutingMessages(our_name) ==
    {RequestMessage(ExpectCloseNode(p), NaeManager(NameOfKey(p.key)),
                    NodeManager(our_name)) : p \in RelocatedPeerIds} \cup
    {RequestMessage(UserRequest("Get", ImmutableData(our_name), 1),
                    Client(k, our_name), NaeManager(our_name)) : k \in PeerKeys} \cup
    {ResponseMessage(GetNetworkNameResponse(PublicId(OurKey, sha512(our_name))),
                     NaeManager(our_name), Client(OurKey, p.name)) :
         p \in RelocatedPeerIds} \cup
    {ResponseMessage(GetCloseGroupResponse(ids), NodeManager(our_name),
                     Client(OurKey, ids[1].name)) :
         ids \in {o \in Orders(RelocatedPeerIds) : o[1].key = FirstPeer}}

\* An ExpectCloseNode request for a peer's relocated id, as a peer relays it
ExpectCloseNodeHops ==
    {HopMessage(SignedMessage(RequestMessage(ExpectCloseNode(p),
                                             NaeManager(NameOfKey(p.key)),
                                             NodeManager(p.name)),
                              PublicId(FirstPeer, RelocatedName(FirstPeer)), FirstPeer),
                h.name, h.key) : p \in RelocatedPeerIds, h \in PeerIds}

\* Message::HopMessage, as the peers can send it
HopMessages(our_name) ==
    {HopMessage(SignedMessage(m, p, s), h.name, h.key) :
         m \in RoutingMessages(our_name), p \in {PublicId(FirstPeer, RelocatedName(FirstPeer))},
         s \in PeerKeys, h \in RelocatedPeerIds}

----------------------------------------------------------------------------
(* The event loop of Core::run: one action per event it takes off a queue.  *)

\* The orders in which this step can iterate proxy_map, client_map and
\* node_id_cache; one order is enough where no iteration meets two entries.
CanonOrder(S) == SortByDistance(S, 0)
ConnOrders ==
    IF Cardinality(DOMAIN proxy_map) >= 2 THEN Orders(Conns)
    ELSE {CHOOSE o \in Orders(Conns) : TRUE}
KeyOrders ==
    IF \E k1, k2 \in DOMAIN client_map : k1 # k2 /\ client_map[k1][1] = client_map[k2][1]
    THEN Orders(PeerKeys \cup JoinerKeys)
    ELSE {CanonOrder(PeerKeys \cup JoinerKeys)}
FindFromLow ==
    IF \E n1, n2 \in DOMAIN node_id_cache :
           n1 # n2 /\ node_id_cache[n1].key = node_id_cache[n2].key
    THEN BOOLEAN ELSE {TRUE}

\* What is remembered of the event handled last.
Handled(ev, conn, msg, hop) ==
    [ev |-> ev, conn |-> conn, msg |-> msg, type |-> msg.type,
     relocated |-> IF msg.type \in {"BootstrapIdentify", "ClientIdentify", "NodeIdentify"}
                   THEN ~IsUnrelocated(msg.public_id) ELSE FALSE,
     hop |-> hop,
     dup |-> msg.type = "HopMessage" /\ msg.content \in signed_message_filter]

\* The routing thread runs: it has not panicked and was not told to terminate.
Running == last.res \notin {"panic", "terminated"}

\* The handler has run on c: its effects become the next state of the core.
CommitCore(c, handled) ==
    /\ c.renames <= MaxRenames
    /\ state' = c.state
    /\ client_restriction' = c.client_restriction
    /\ name' = c.name
    /\ routing_table' = c.routing_table
    /\ proxy_map' = c.proxy_map
    /\ client_map' = c.client_map
    /\ node_id_cache' = c.node_id_cache
    /\ signed_message_filter' = c.signed_message_filter
    /\ connection_filter' = c.connection_filter
    /\ grp_msg_filter' = c.grp_msg_filter
    /\ message_accumulator' = c.message_accumulator
    /\ quorum_size' = c.quorum_size
    /\ data_cache' = c.data_cache
    /\ is_listening' = c.is_listening
    /\ renames' = c.renames
    /\ sent' = c.sent
    /\ dropped' = c.dropped
    /\ events' = c.events
    /\ calls' = c.calls
    /\ replies' = c.replies
    /\ last' = [ev |-> handled.ev, conn |-> handled.conn, msg |-> handled.msg,
                type |-> handled.type,
                relocated |-> handled.relocated, hop |-> handled.hop,
                dup |-> handled.dup, from |-> state, res |-> c.res]

\* The handler of an event has run on c.
Commit(c, handled) == CommitCore(c, handled) /\ UNCHANGED <<args, result, peer, wire>>

\* No second core is modelled: the peers are the environment.
NoPeer == [state |-> "Absent"]

\* Nothing is in flight between two cores.
NoWire == [core |-> <<>>, peer |-> <<>>, identifies |-> 0]

\* Core::new and the call of bootstrap that opens Core::run
NewCore ==
    /\ peer = NoPeer
    /\ wire = NoWire
    /\ state = "Disconnected"
    /\ client_restriction \in BOOLEAN
    /\ name = NameOfKey(OurKey)
    /\ routing_table = EmptyMap
    /\ proxy_map = EmptyMap
    /\ client_map = EmptyMap
    /\ node_id_cache = EmptyMap
    /\ signed_message_filter = {}
    /\ connection_filter = {}
    /\ grp_msg_filter = {}
    /\ message_accumulator = EmptyMap
    /\ quorum_size = 1
    /\ data_cache = EmptyMap
    /\ is_listening = FALSE
    /\ connections = {}
    /\ renames = 0
    /\ sent = <<>>
    /\ dropped = <<>>
    /\ events = <<>>
    /\ calls = <<"bootstrap">>
    /\ replies = <<>>
    /\ last = [ev |-> "new", conn |-> "none", msg |-> NoMsg, type |-> "none",
               relocated |-> FALSE,
               hop |-> "none", dup |-> FALSE, from |-> "Disconnected", res |-> "Ok"]

\* The core is constructed and no function is called on its own.
Init == NewCore /\ args = <<>> /\ result = <<>>

\* Core::new with client_restriction false: a core that is to become a node
InitUnrestricted == Init /\ ~client_restriction

\* crust::Event::BootstrapFinished
BootstrapFinished ==
    /\ Running
    /\ \E co \in ConnOrders, ko \in KeyOrders, low \in FindFromLow :
           Commit(handle_bootstrap_finished(Self(co, ko, low)),
                  Handled("BootstrapFinished", "none", NoMsg, "none"))
    /\ UNCHANGED connections

\* crust::Event::OnConnect(Ok((endpoint, connection)), token)
OnConnect ==
    /\ Running
    /\ \E conn \in Conns \ connections :
           /\ \E co \in ConnOrders, ko \in KeyOrders, low \in FindFromLow :
                  Commit(handle_on_connect(Self(co, ko, low), conn),
                         Handled("OnConnect", conn, NoMsg, "none"))
           /\ connections' = connections \cup {conn}

\* crust::Event::OnConnect(Err(error), token)
OnConnectFailed ==
    /\ Running
    /\ \E co \in ConnOrders, ko \in KeyOrders, low \in FindFromLow :
           Commit(Self(co, ko, low), Handled("OnConnectFailed", "none", NoMsg, "none"))
    /\ UNCHANGED connections

\* crust::Event::OnAccept(endpoint, connection): the transport accepts once
\* start_accepting was called
OnAccept ==
    /\ Running
    /\ is_listening
    /\ \E conn \in Conns \ connections :
           /\ \E co \in ConnOrders, ko \in KeyOrders, low \in FindFromLow :
                  Commit(handle_on_accept(Self(co, ko, low), conn),
                         Handled("OnAccept", conn, NoMsg, "none"))
           /\ connections' = connections \cup {conn}

\* crust::Event::LostConnection(connection)
LostConnection ==
    /\ Running
    /\ \E conn \in connections :
           /\ \E co \in ConnOrders, ko \in KeyOrders, low \in FindFromLow :
                  Commit(handle_lost_connection(Self(co, ko, low), conn),
                         Handled("LostConnection", conn, NoMsg, "none"))
           /\ connections' = connections \ {conn}

\* The names of the data the user asks for: our first name as a node, and one
\* that is no peer's.
DataNames == {sha512(NameOfKey(OurKey)), NameOfKey(OurKey + GROUP_SIZE + 1)}

\* Action::NodeSendMessage { content, result_tx }, the content a request of
\* this node for data
NodeSendMessage ==
    /\ Running
    /\ \E t \in DataNames :
       \E co \in ConnOrders, ko \in KeyOrders, low \in FindFromLow :
           Commit(handle_node_send_message(
                      Self(co, ko, low),
                      RequestMessage(UserRequest("Get", ImmutableData(t), 1),
                                     ManagedNode(name), NaeManager(t))),
                  Handled("NodeSendMessage", "none",
                          [type |-> "Action",
                           content |-> UserRequest("Get", ImmutableData(t), 1),
                           src |-> ManagedNode(name), dst |-> NaeManager(t)], "none"))
    /\ UNCHANGED connections

\* Action::ClientSendRequest { content, dst, result_tx }
ClientSendRequest ==
    /\ Running
    /\ \E t \in DataNames :
       \E co \in ConnOrders, ko \in KeyOrders, low \in FindFromLow :
           Commit(handle_client_send_request(
                      Self(co, ko, low),
                      UserRequest("Get", ImmutableData(t), 1), NaeManager(t)),
                  Handled("ClientSendRequest", "none",
                          [type |-> "Action",
                           content |-> UserRequest("Get", ImmutableData(t), 1),
                           dst |-> NaeManager(t)], "none"))
    /\ UNCHANGED connections

\* The peer at the other end of a connection, where each peer has its own.
PeerOn(conn) == IF conn = "c1" THEN FirstPeer ELSE CHOOSE k \in PeerKeys : k # FirstPeer

\* The messages that speak for key k: direct messages presenting an id of k,
\* hop messages with k as the last hop.
SpeaksFor(msg, k) ==
    IF msg.type = "HopMessage" THEN msg.signer = k /\ msg.name \in {NameOfKey(k), RelocatedName(k)}
    ELSE IF msg.type = "BootstrapDeny" THEN TRUE
    ELSE msg.public_id.key = k

\* crust::Event::NewMessage(connection, bytes), the bytes one of msgs, each
\* peer sending for itself down its own connection
NewOwnMessage(msgs) ==
    /\ Running
    /\ \E conn \in connections :
       \E msg \in {m \in msgs : SpeaksFor(m, PeerOn(conn))} :
           \E co \in ConnOrders, ko \in KeyOrders, low \in FindFromLow :
               Commit(handle_new_message(Self(co, ko, low), msg, conn),
                      Handled("NewMessage", conn, msg,
                              IF msg.type # "HopMessage" THEN "none"
                              ELSE IF ~hop_check(Self(co, ko, low), msg, conn)[1]
                              THEN "refused"
                              ELSE IF hop_check(Self(co, ko, low), msg, conn)[2]
                              THEN "verified"
                              ELSE "unverified"))
    /\ UNCHANGED connections

\* crust::Event::NewMessage(connection, bytes), the bytes one of msgs
NewMessage(msgs) ==
    /\ Running
    /\ \E conn \in connections, msg \in msgs :
           \E co \in ConnOrders, ko \in KeyOrders, low \in FindFromLow :
               Commit(handle_new_message(Self(co, ko, low), msg, conn),
                      Handled("NewMessage", conn, msg,
                              IF msg.type # "HopMessage" THEN "none"
                              ELSE IF ~hop_check(Self(co, ko, low), msg, conn)[1]
                              THEN "refused"
                              ELSE IF hop_check(Self(co, ko, low), msg, conn)[2]
                              THEN "verified"
                              ELSE "unverified"))
    /\ UNCHANGED connections

\* The event loop of Core::run, the peers sending any message on any connection.
Next ==
    \/ BootstrapFinished
    \/ OnConnect
    \/ OnConnectFailed
    \/ OnAccept
    \/ LostConnection
    \/ NewMessage({m \in DirectMessages : m.type = "BootstrapIdentify"})
    \/ NewMessage({m \in DirectMessages : m.type = "BootstrapDeny"})
    \/ NewMessage({m \in DirectMessages : m.type = "ClientIdentify"})
    \/ NewMessage({m \in DirectMessages : m.type = "NodeIdentify"})
    \/ NewMessage(HopMessages(name))
    \/ NewMessage({[type |-> "undecodable"]})
    \/ NodeSendMessage
    \/ ClientSendRequest

Spec == Init /\ [][Next]_vars

\* The event loop while the peers only answer a bootstrap.
NextBootstrap ==
    \/ BootstrapFinished
    \/ OnConnect
    \/ OnConnectFailed
    \/ OnAccept
    \/ LostConnection
    \/ NewMessage({m \in DirectMessages : m.type = "BootstrapIdentify"})
    \/ NewMessage({m \in DirectMessages : m.type = "BootstrapDeny"})
    \/ NewMessage({[type |-> "undecodable"]})

SpecBootstrap == Init /\ [][NextBootstrap]_vars

\* The event loop of a core that is to become a node, while peers join through
\* it: they identify as clients, are expected as close nodes, and identify as
\* nodes.
NextJoin ==
    \/ BootstrapFinished
    \/ OnAccept
    \/ LostConnection
    \/ NewOwnMessage({m \in DirectMessages : m.type # "BootstrapIdentify"})
    \/ NewOwnMessage(ExpectCloseNodeHops)

SpecJoin == InitUnrestricted /\ [][NextJoin]_vars

\* The event loop while the peers answer a bootstrap, join as clients and
\* relay Get requests for data of any name.
NextHop ==
    \/ BootstrapFinished
    \/ OnConnect
    \/ OnAccept
    \/ LostConnection
    \/ NewOwnMessage({m \in DirectMessages : /\ m.type = "BootstrapIdentify"
                                             /\ m.current_quorum_size = 1})
    \/ NewOwnMessage({m \in DirectMessages : /\ m.type = "ClientIdentify"
                                             /\ m.signer = m.public_id.key})
    \/ NewOwnMessage({h \in HopMessages(name) : h.content.content.content.tag = "Get"})

SpecHop == InitUnrestricted /\ [][NextHop]_vars

\* Message::DirectMessage(ClientIdentify), as the peers that ask to join send it
JoinerIdentifies ==
    {ClientIdentify(PublicId(k, NameOfKey(k)), k, r) : k \in JoinerKeys, r \in BOOLEAN}

\* The event loop of the first node while peers ask to join through it.
NextAdmit ==
    \/ BootstrapFinished
    \/ OnAccept
    \/ LostConnection
    \/ NewMessage(JoinerIdentifies)

SpecAdmit == InitUnrestricted /\ [][NextAdmit]_vars

\* The responses to a core that relocates through its first proxy, as its
\* proxies relay them
RelocationHops(our_name) ==
    {h \in HopMessages(our_name) :
         /\ h.content.content.kind = "Response"
         /\ h.content.content.dst.name = RelocatedName(FirstPeer)
         /\ check_integrity(h.content)}

\* The event loop of a core that joins through proxies: it is named by the
\* network, learns its close group and is identified to by the nodes of it.
NextRelocate ==
    \/ OnConnect
    \/ NewOwnMessage({m \in DirectMessages : /\ m.type = "BootstrapIdentify"
                                             /\ m.current_quorum_size = 1})
    \/ NewOwnMessage({m \in DirectMessages : /\ m.type = "NodeIdentify"
                                             /\ verify_signed_public_id(m)})
    \/ NewOwnMessage(RelocationHops(name))

SpecRelocate == InitUnrestricted /\ [][NextRelocate]_vars

\* The responses of a group to a core that relocates through its first proxy,
\* each signed by one member of the group, as the proxies relay them
GroupResponseHops(our_name) ==
    {HopMessage(SignedMessage(m, PublicId(k, RelocatedName(k)), k), h.name, h.key) :
         m \in {r \in RoutingMessages(our_name) :
                    /\ r.kind = "Response"
                    /\ r.dst.name = RelocatedName(FirstPeer)},
         k \in PeerKeys, h \in RelocatedPeerIds}

\* The event loop of a core that joins through proxies while the members of
\* a group answer its GetNetworkName request.
NextAccumulate ==
    \/ OnConnect
    \/ NewOwnMessage({m \in DirectMessages : /\ m.type = "BootstrapIdentify"
                                             /\ ~IsUnrelocated(m.public_id)})
    \/ NewOwnMessage({h \in GroupResponseHops(NameOfKey(OurKey)) \cup
                               GroupResponseHops(name) :
                          h.content.content.content.tag = "GetNetworkName"})

SpecAccumulate == InitUnrestricted /\ [][NextAccumulate]_vars

\* The event loop of a core that joins through proxies while the members of
\* a group answer its GetCloseGroup request.
NextCloseGroup ==
    \/ OnConnect
    \/ NewOwnMessage({m \in DirectMessages : /\ m.type = "BootstrapIdentify"
                                             /\ ~IsUnrelocated(m.public_id)})
    \/ NewOwnMessage({h \in GroupResponseHops(name) :
                          h.content.content.content.tag = "GetCloseGroup"})

SpecCloseGroup == InitUnrestricted /\ [][NextCloseGroup]_vars

\* A node's Get request for data named like the first node, or like a key
\* that is no peer's, as the node relays it itself
TransitHops ==
    {HopMessage(SignedMessage(RequestMessage(UserRequest("Get", ImmutableData(t), 1),
                                             ManagedNode(RelocatedName(k)),
                                             NaeManager(t)),
                              PublicId(k, RelocatedName(k)), k),
                RelocatedName(k), k) :
         k \in PeerKeys,
         t \in {sha512(NameOfKey(OurKey)), NameOfKey(OurKey + GROUP_SIZE + 1)}}

\* The event loop of a core that has become a node, while peers join through
\* it and then send requests of their own.
NextTransit ==
    \/ BootstrapFinished
    \/ OnAccept
    \/ NewOwnMessage({m \in DirectMessages : /\ m.type = "ClientIdentify"
                                             /\ verify_signed_public_id(m)
                                             /\ IsUnrelocated(m.public_id)
                                             /\ ~m.client_restriction})
    \/ NewOwnMessage(ExpectCloseNodeHops)
    \/ NewOwnMessage({m \in DirectMessages : /\ m.type = "NodeIdentify"
                                             /\ verify_signed_public_id(m)
                                             /\ ~IsUnrelocated(m.public_id)})
    \/ NewOwnMessage(TransitHops)

SpecTransit == InitUnrestricted /\ [][NextTransit]_vars

\* The ids the peers present as nodes: their relocated ids, the first peer's
\* key under the name of this core, and another peer's key under the first
\* peer's relocated name.
NodeIds(our_name) ==
    RelocatedPeerIds \cup {PublicId(FirstPeer, our_name)} \cup
    {PublicId(k, RelocatedName(FirstPeer)) : k \in PeerKeys}

\* The event loop of the first node while peers join, present themselves as
\* nodes under those ids, and are lost.
NextChurn ==
    \/ BootstrapFinished
    \/ OnAccept
    \/ LostConnection
    \/ NewOwnMessage({m \in DirectMessages : /\ m.type = "ClientIdentify"
                                             /\ verify_signed_public_id(m)
                                             /\ IsUnrelocated(m.public_id)
                                             /\ ~m.client_restriction})
    \/ NewOwnMessage({HopMessage(SignedMessage(RequestMessage(ExpectCloseNode(p),
                                                             NaeManager(NameOfKey(p.key)),
                                                             NodeManager(p.name)),
                                              PublicId(p.key, NameOfKey(p.key)), p.key),
                                NameOfKey(p.key), p.key) : p \in NodeIds(name)})
    \/ NewOwnMessage({NodeIdentify(p, s) : p \in NodeIds(name), s \in PeerKeys})

SpecChurn == InitUnrestricted /\ [][NextChurn]_vars

\* A joining node's GetNetworkName request, for the group of its own name or
\* of another peer's, as it sends it through a core named our_name
GetNetworkNameHops(our_name) ==
    {HopMessage(SignedMessage(RequestMessage(
                                  GetNetworkNameRequest(PublicId(k, NameOfKey(k))),
                                  Client(k, our_name), NaeManager(NameOfKey(d))),
                              PublicId(k, NameOfKey(k)), k),
                NameOfKey(k), k) : k \in PeerKeys, d \in PeerKeys}

\* The event loop of the first node while peers join through it, ask for
\* their names and identify under the ids it has cached for them.
NextName ==
    \/ BootstrapFinished
    \/ OnAccept
    \/ NewOwnMessage({m \in DirectMessages : /\ m.type = "ClientIdentify"
                                             /\ verify_signed_public_id(m)
                                             /\ IsUnrelocated(m.public_id)
                                             /\ ~m.client_restriction})
    \/ NewOwnMessage(GetNetworkNameHops(name))
    \/ NewOwnMessage({NodeIdentify(node_id_cache[n], node_id_cache[n].key) :
                          n \in DOMAIN node_id_cache})

SpecName == InitUnrestricted /\ [][NextName]_vars

\* A node's GetSuccess response for a client of a core named our_name, as the
\* node relays it itself
RelayHops(our_name) ==
    {HopMessage(SignedMessage(ResponseMessage(UserResponse("GetSuccess", ImmutableData(t), 1),
                                              ManagedNode(RelocatedName(k)),
                                              Client(j, our_name)),
                              PublicId(k, RelocatedName(k)), k),
                RelocatedName(k), k) :
         k \in PeerKeys, j \in PeerKeys, t \in {NameOfKey(OurKey + GROUP_SIZE + 1)}}

\* The event loop of the first node while peers join through it as clients
\* and as nodes, and send responses to its clients.
NextRelay ==
    \/ BootstrapFinished
    \/ OnAccept
    \/ NewOwnMessage({m \in DirectMessages : /\ m.type = "ClientIdentify"
                                             /\ verify_signed_public_id(m)
                                             /\ IsUnrelocated(m.public_id)
                                             /\ ~m.client_restriction})
    \/ NewOwnMessage(ExpectCloseNodeHops)
    \/ NewOwnMessage({m \in DirectMessages : /\ m.type = "NodeIdentify"
                                             /\ verify_signed_public_id(m)
                                             /\ ~IsUnrelocated(m.public_id)})
    \/ NewOwnMessage(RelayHops(name))

SpecRelay == InitUnrestricted /\ [][NextRelay]_vars

\* Get requests of the peers for data named like a key that is no peer's, and
\* the first peer's GetSuccess responses with such data, to this core or to
\* the node of that name, as the peers relay them themselves
CacheHops(our_name) ==
    {HopMessage(SignedMessage(RequestMessage(
                                  UserRequest("Get", ImmutableData(NameOfKey(OurKey + GROUP_SIZE + 1)), 1),
                                  ManagedNode(RelocatedName(k)),
                                  NaeManager(NameOfKey(OurKey + GROUP_SIZE + 1))),
                              PublicId(k, RelocatedName(k)), k),
                RelocatedName(k), k) : k \in PeerKeys} \cup
    {HopMessage(SignedMessage(ResponseMessage(UserResponse("GetSuccess", d, 2),
                                              ManagedNode(RelocatedName(FirstPeer)),
                                              ManagedNode(n)),
                              PublicId(FirstPeer, RelocatedName(FirstPeer)), FirstPeer),
                RelocatedName(FirstPeer), FirstPeer) :
         d \in {ImmutableData(NameOfKey(OurKey + GROUP_SIZE + 1)),
                PlainData(NameOfKey(OurKey + GROUP_SIZE + 1))},
         n \in {our_name, NameOfKey(OurKey + GROUP_SIZE + 1)}}

\* The event loop of the first node while the first peer joins through it,
\* the peers become its close nodes and then send data and requests for it.
NextCache ==
    \/ BootstrapFinished
    \/ OnAccept
    \/ NewOwnMessage({ClientIdentify(PublicId(FirstPeer, NameOfKey(FirstPeer)),
                                     FirstPeer, FALSE)})
    \/ NewOwnMessage(ExpectCloseNodeHops)
    \/ NewOwnMessage({m \in DirectMessages : /\ m.type = "NodeIdentify"
                                             /\ verify_signed_public_id(m)
                                             /\ ~IsUnrelocated(m.public_id)})
    \/ NewOwnMessage(CacheHops(name))

SpecCache == InitUnrestricted /\ [][NextCache]_vars

\* The authorities of each kind, for a key and a name
Authorities(k, n) == {Client(k, n), ManagedNode(n), NodeManager(n), NaeManager(n)}

\* RoutingMessage: a request and a response of every content of the protocol,
\* or of every content of the user, from the first peer under each kind of
\* authority to a core named our_name under each kind
DispatchMessages(our_name, of_user) ==
    {RequestMessage(content, src, dst) :
         content \in IF of_user
                     THEN {UserRequest(tag, ImmutableData(our_name), 1) :
                               tag \in UserRequestTags}
                     ELSE {GetNetworkNameRequest(PublicId(FirstPeer, NameOfKey(FirstPeer))),
                           ExpectCloseNode(PublicId(FirstPeer, RelocatedName(FirstPeer))),
                           GetCloseGroupRequest,
                           Endpoints(seal(1, OurKey, FirstPeer)),
                           Connect,
                           GetPublicIdRequest,
                           GetPublicIdWithEndpointsRequest(seal(1, OurKey, FirstPeer))},
         src \in Authorities(FirstPeer, RelocatedName(FirstPeer)),
         dst \in Authorities(OurKey, our_name)} \cup
    {ResponseMessage(content, src, dst) :
         content \in IF of_user
                     THEN {UserResponse(tag, PlainData(our_name), 1) :
                               tag \in UserResponseTags}
                     ELSE {GetNetworkNameResponse(PublicId(OurKey, RelocatedName(OurKey))),
                           GetPublicIdResponse(PublicId(FirstPeer, RelocatedName(FirstPeer))),
                           GetPublicIdWithEndpointsResponse(
                               PublicId(FirstPeer, RelocatedName(FirstPeer)),
                               seal(1, OurKey, FirstPeer)),
                           GetCloseGroupResponse(
                               <<PublicId(FirstPeer, RelocatedName(FirstPeer))>>)},
         src \in Authorities(FirstPeer, RelocatedName(FirstPeer)),
         dst \in Authorities(OurKey, our_name)}

\* A core that is to become the first node of a network, and a routing
\* message for its dispatcher
InitDispatch ==
    /\ NewCore
    /\ ~client_restriction
    /\ \E of_user \in BOOLEAN :
           args \in {[routing_msg |-> m] :
                         m \in DispatchMessages(sha512(NameOfKey(OurKey)), of_user)}
    /\ result = <<>>

\* Core::dispatch_request_response called with the routing message, at a node
\* or a client
DispatchRequestResponse ==
    /\ Running
    /\ state \in {"Node", "Client"}
    /\ result = <<>>
    /\ \E co \in ConnOrders, ko \in KeyOrders, low \in FindFromLow :
           CommitCore(dispatch_request_response(Self(co, ko, low), args.routing_msg),
                      Handled("Dispatch", "none",
                              [type |-> "RoutingMessage", content |-> args.routing_msg],
                              "none"))
    /\ result' = <<last'.res>>
    /\ UNCHANGED <<connections, args, peer, wire>>

\* The first node of a network and its dispatcher.
NextDispatch ==
    \/ BootstrapFinished
    \/ OnAccept
    \/ DispatchRequestResponse

SpecDispatch == InitDispatch /\ [][NextDispatch]_vars

\* A Connect request to a core named our_name, from the relocated name of a
\* peer or from the core's own name, as a peer signs and relays it, and the
\* first peer's endpoints for that core
ConnectHops(our_name) ==
    {HopMessage(SignedMessage(RequestMessage(Connect, ManagedNode(n),
                                             ManagedNode(our_name)),
                              PublicId(k, RelocatedName(k)), k),
                RelocatedName(k), k) :
         k \in PeerKeys, n \in {RelocatedName(FirstPeer), our_name}} \cup
    {HopMessage(SignedMessage(RequestMessage(Endpoints(seal(1, OurKey, FirstPeer)),
                                             ManagedNode(RelocatedName(FirstPeer)),
                                             ManagedNode(our_name)),
                              PublicId(FirstPeer, RelocatedName(FirstPeer)), FirstPeer),
                RelocatedName(FirstPeer), FirstPeer)}

\* The event loop of the first node while the first peer joins through it,
\* the peers are expected and identified as its close nodes, and ask it to
\* connect.
NextConnect ==
    \/ BootstrapFinished
    \/ OnAccept
    \/ NewOwnMessage({ClientIdentify(PublicId(FirstPeer, NameOfKey(FirstPeer)),
                                     FirstPeer, FALSE)})
    \/ NewOwnMessage(ExpectCloseNodeHops)
    \/ NewOwnMessage({m \in DirectMessages : /\ m.type = "NodeIdentify"
                                             /\ verify_signed_public_id(m)
                                             /\ ~IsUnrelocated(m.public_id)})
    \/ NewOwnMessage(ConnectHops(name))

SpecConnect == InitUnrestricted /\ [][NextConnect]_vars

\* The event loop of the first node while peers join through it, become its
\* close nodes, come back as clients with or without client_restriction, and
\* ask for a name.
NextRestricted ==
    \/ BootstrapFinished
    \/ OnAccept
    \/ NewOwnMessage({m \in DirectMessages : /\ m.type = "ClientIdentify"
                                             /\ verify_signed_public_id(m)
                                             /\ IsUnrelocated(m.public_id)})
    \/ NewOwnMessage(ExpectCloseNodeHops)
    \/ NewOwnMessage({m \in DirectMessages : /\ m.type = "NodeIdentify"
                                             /\ verify_signed_public_id(m)
                                             /\ ~IsUnrelocated(m.public_id)})
    \/ NewOwnMessage({HopMessage(h.content, n, h.signer) :
                          h \in {g \in GetNetworkNameHops(name) :
                                     g.content.content.dst.name =
                                         NameOfKey(g.content.content.src.client_key)},
                          n \in {NameOfKey(FirstPeer), RelocatedName(FirstPeer)} \cup
                                {RelocatedName(k) : k \in PeerKeys}})

SpecRestricted == InitUnrestricted /\ [][NextRestricted]_vars

\* Two cores and one new connection between them.  The second core runs the
\* handlers of the first; it is written in its own frame, in which its key is
\* OurKey and the key of the first core is FirstPeer, and a message crossing
\* the wire is translated from the sender's frame into the receiver's.
Link == "c1"

\* The most NodeIdentify messages the two cores are followed for.
MaxIdentifies == 8

\* The third node both cores may know, and its connection at either core.
ThirdNode == PublicId(CHOOSE k \in PeerKeys : k # FirstPeer,
                      RelocatedName(CHOOSE k \in PeerKeys : k # FirstPeer))
ThirdConn == CHOOSE conn \in Conns : conn # Link

\* A key of one core's frame in the frame of the other.
Swap(k) == IF k = OurKey THEN FirstPeer ELSE IF k = FirstPeer THEN OurKey ELSE k

\* A direct message of one core's frame in the frame of the other.
Mirror(msg) ==
    IF msg.type \in {"ClientIdentify", "NodeIdentify", "BootstrapIdentify"}
    THEN [msg EXCEPT !.public_id.key = Swap(@), !.signer = Swap(@)]
    ELSE msg

\* What a handler gave to crust_service.send for the link, as the other core
\* receives it.
Crossing(out) ==
    [i \in 1..Len(SelectSeq(out, LAMBDA e : e.conn = Link)) |->
        [conn |-> Link, msg |-> Mirror(SelectSeq(out, LAMBDA e : e.conn = Link)[i].msg)]]

\* A core that has its relocated name and has finished bootstrapping: a client
\* behind a proxy, a node with an empty routing table, or a node that has the
\* third node in its routing table; node_id_cache holds the id of the core it
\* is about to be connected with.
JoinedCores(our_name, their_name) ==
    {[state |-> st.state, client_restriction |-> FALSE, name |-> our_name,
      routing_table |-> st.routing_table, proxy_map |-> st.proxy_map,
      client_map |-> EmptyMap,
      node_id_cache |-> Insert(EmptyMap, their_name, PublicId(FirstPeer, their_name)),
      signed_message_filter |-> {}, connection_filter |-> {}, grp_msg_filter |-> {},
      message_accumulator |-> EmptyMap, quorum_size |-> 1, data_cache |-> EmptyMap,
      is_listening |-> TRUE, renames |-> 1, connections |-> st.connections] :
        st \in {[state |-> "Client", routing_table |-> EmptyMap,
                 proxy_map |-> Insert(EmptyMap, ThirdConn, ThirdNode),
                 connections |-> {ThirdConn}],
                [state |-> "Node", routing_table |-> EmptyMap, proxy_map |-> EmptyMap,
                 connections |-> {}],
                [state |-> "Node",
                 routing_table |-> Insert(EmptyMap, ThirdNode.name,
                                          NodeInfo(ThirdNode, <<ThirdConn>>)),
                 proxy_map |-> EmptyMap, connections |-> {ThirdConn}]}}

\* The two cores before crust reports the connection to either.
InitHandshake ==
    /\ \E c \in JoinedCores(RelocatedName(OurKey), RelocatedName(FirstPeer)) :
           /\ state = c.state
           /\ client_restriction = c.client_restriction
           /\ name = c.name
           /\ routing_table = c.routing_table
           /\ proxy_map = c.proxy_map
           /\ client_map = c.client_map
           /\ node_id_cache = c.node_id_cache
           /\ signed_message_filter = c.signed_message_filter
           /\ connection_filter = c.connection_filter
           /\ grp_msg_filter = c.grp_msg_filter
           /\ message_accumulator = c.message_accumulator
           /\ quorum_size = c.quorum_size
           /\ data_cache = c.data_cache
           /\ is_listening = c.is_listening
           /\ renames = c.renames
           /\ connections = c.connections
           /\ last = [ev |-> "new", conn |-> "none", msg |-> NoMsg, type |-> "none",
                      relocated |-> FALSE, hop |-> "none", dup |-> FALSE,
                      from |-> c.state, res |-> "Ok"]
    /\ sent = <<>>
    /\ dropped = <<>>
    /\ events = <<>>
    /\ calls = <<>>
    /\ replies = <<>>
    /\ args = <<>>
    /\ result = <<>>
    /\ peer \in JoinedCores(RelocatedName(FirstPeer), RelocatedName(OurKey))
    /\ wire = NoWire

\* struct Core of the second core, as its running handler sees it.
PeerSelf ==
    [state |-> peer.state, client_restriction |-> peer.client_restriction,
     name |-> peer.name, routing_table |-> peer.routing_table,
     proxy_map |-> peer.proxy_map, client_map |-> peer.client_map,
     node_id_cache |-> peer.node_id_cache,
     signed_message_filter |-> peer.signed_message_filter,
     connection_filter |-> peer.connection_filter,
     grp_msg_filter |-> peer.grp_msg_filter,
     message_accumulator |-> peer.message_accumulator,
     quorum_size |-> peer.quorum_size, data_cache |-> peer.data_cache,
     is_listening |-> peer.is_listening, renames |-> peer.renames,
     conn_order |-> CHOOSE o \in Orders(Conns) : TRUE,
     key_order |-> CanonOrder(PeerKeys \cup JoinerKeys), name_low |-> TRUE,
     sent |-> <<>>, dropped |-> <<>>, events |-> <<>>, calls |-> <<>>,
     replies |-> <<>>,
     res |-> "Ok"]

\* A handler has run on c at the first core: its effects become the state of
\* that core, and what it sent on the link is in flight to the second.
CoreHandled(c, handled, inbox) ==
    /\ CommitCore(c, handled)
    /\ wire' = [core |-> inbox, peer |-> wire.peer \o Crossing(c.sent),
                identifies |-> wire.identifies + Len(Crossing(c.sent))]
    /\ UNCHANGED <<args, result, peer>>

\* A handler has run on c at the second core.
PeerHandled(c, conns, inbox) ==
    /\ peer' = [state |-> c.state, client_restriction |-> c.client_restriction,
                name |-> c.name, routing_table |-> c.routing_table,
                proxy_map |-> c.proxy_map, client_map |-> c.client_map,
                node_id_cache |-> c.node_id_cache,
                signed_message_filter |-> c.signed_message_filter,
                connection_filter |-> c.connection_filter,
                grp_msg_filter |-> c.grp_msg_filter,
                message_accumulator |-> c.message_accumulator,
                quorum_size |-> c.quorum_size, data_cache |-> c.data_cache,
                is_listening |-> c.is_listening, renames |-> c.renames,
                connections |-> conns]
    /\ wire' = [core |-> wire.core \o Crossing(c.sent), peer |-> inbox,
                identifies |-> wire.identifies + Len(Crossing(c.sent))]
    /\ UNCHANGED <<coreVars, connections, renames, sent, dropped, events, calls,
                   replies, args, result, last>>

\* crust::Event::OnConnect(Ok((endpoint, Link)), token) at the first core
CoreOnConnect ==
    /\ Running
    /\ Link \notin connections
    /\ \E co \in ConnOrders, ko \in KeyOrders, low \in FindFromLow :
           CoreHandled(handle_on_connect(Self(co, ko, low), Link),
                       Handled("OnConnect", Link, NoMsg, "none"), wire.core)
    /\ connections' = connections \cup {Link}

\* crust::Event::OnAccept(endpoint, Link) at the first core, the second
\* having connected
CoreOnAccept ==
    /\ Running
    /\ is_listening
    /\ Link \notin connections
    /\ Link \in peer.connections
    /\ \E co \in ConnOrders, ko \in KeyOrders, low \in FindFromLow :
           CoreHandled(handle_on_accept(Self(co, ko, low), Link),
                       Handled("OnAccept", Link, NoMsg, "none"), wire.core)
    /\ connections' = connections \cup {Link}

\* crust::Event::NewMessage(Link, bytes) at the first core, the bytes the
\* first message in flight to it
CoreNewMessage ==
    /\ Running
    /\ Link \in connections
    /\ wire.core # <<>>
    /\ wire.identifies <= MaxIdentifies
    /\ \E co \in ConnOrders, ko \in KeyOrders, low \in FindFromLow :
           CoreHandled(handle_new_message(Self(co, ko, low), Head(wire.core).msg, Link),
                       Handled("NewMessage", Link, Head(wire.core).msg, "none"),
                       Tail(wire.core))
    /\ UNCHANGED connections

\* crust::Event::OnConnect(Ok((endpoint, Link)), token) at the second core
PeerOnConnect ==
    /\ Link \notin peer.connections
    /\ PeerHandled(handle_on_connect(PeerSelf, Link), peer.connections \cup {Link},
                   wire.peer)

\* crust::Event::OnAccept(endpoint, Link) at the second core, the first
\* having connected
PeerOnAccept ==
    /\ peer.is_listening
    /\ Link \notin peer.connections
    /\ Link \in connections
    /\ PeerHandled(handle_on_accept(PeerSelf, Link), peer.connections \cup {Link},
                   wire.peer)

\* crust::Event::NewMessage(Link, bytes) at the second core
PeerNewMessage ==
    /\ Link \in peer.connections
    /\ wire.peer # <<>>
    /\ wire.identifies <= MaxIdentifies
    /\ PeerHandled(handle_new_message(PeerSelf, Head(wire.peer).msg, Link),
                   peer.connections, Tail(wire.peer))

\* The event loops of the two cores while crust reports the new connection to
\* both and carries what they send to each other.
NextHandshake ==
    \/ CoreOnConnect
    \/ CoreOnAccept
    \/ CoreNewMessage
    \/ PeerOnConnect
    \/ PeerOnAccept
    \/ PeerNewMessage

\* Crust reports a connection to both of its ends, and Core::run takes every
\* event off its queue.
SpecHandshake ==
    /\ InitHandshake
    /\ [][NextHandshake]_vars
    /\ WF_vars(CoreOnConnect \/ CoreOnAccept)
    /\ WF_vars(PeerOnConnect \/ PeerOnAccept)
    /\ WF_vars(CoreNewMessage)
    /\ WF_vars(PeerNewMessage)

\* utils::calculate_relocated_name called with a list of distinct names
\* and an original name
InitRelocatedName ==
    /\ NewCore
    /\ args \in [close_nodes : UNION {Orders(S) : S \in {T \in SUBSET XorNames :
                                                           Cardinality(T) <= MaxCloseNodes}},
                 original_name : XorNames]
    /\ result = <<>>

CalculateRelocatedName ==
    /\ result = <<>>
    /\ result' = calculate_relocated_name(args.close_nodes, args.original_name)
    /\ UNCHANGED <<coreVars, connections, renames, sent, dropped, events, calls,
                   replies, args, last, peer, wire>>

SpecRelocatedName == InitRelocatedName /\ [][CalculateRelocatedName]_vars

\* The event loop while the user sends messages, as a client behind one or
\* two proxies or as the first node.
NextSend ==
    \/ BootstrapFinished
    \/ OnConnect
    \/ OnAccept
    \/ NewOwnMessage({m \in DirectMessages : /\ m.type = "BootstrapIdentify"
                                             /\ ~IsUnrelocated(m.public_id)
                                             /\ m.current_quorum_size = 1})
    \/ NodeSendMessage
    \/ ClientSendRequest

SpecSend == Init /\ [][NextSend]_vars

----------------------------------------------------------------------------
(* Bootstrap and the lifecycle state.                                       *)

\* C1: a successful OnConnect handled in state Disconnected moves the core to
\* Bootstrapping and sends exactly one message, a ClientIdentify for our id
\* carrying client_restriction, on the new connection; no NodeIdentify is sent.
C1_OnConnectStartsBootstrap ==
    [][(state = "Disconnected" /\ last'.ev = "OnConnect") =>
           /\ state' = "Bootstrapping"
           /\ sent' = <<[conn |-> last'.conn,
                         msg |-> ClientIdentify(PublicId(OurKey, name), OurKey,
                                                client_restriction)]>>]_vars

\* C1: an OnConnect found the core Disconnected and a ClientIdentify went out.
C1_Witness ==
    /\ last.ev = "OnConnect"
    /\ last.from = "Disconnected"
    /\ state = "Bootstrapping"
    /\ Len(sent) = 1
    /\ sent[1].msg.type = "ClientIdentify"

\* C2: the state becomes Client only from Bootstrapping, and only on a
\* BootstrapIdentify whose public id is relocated (name # SHA-512(key)); a
\* Node or a Disconnected core never moves to Client.
C2_ClientOnlyFromBootstrapping ==
    [][(state # "Client" /\ state' = "Client") =>
           /\ state = "Bootstrapping"
           /\ last'.type = "BootstrapIdentify"
           /\ last'.relocated]_vars

\* C4: OnAccept handled in state Disconnected makes the core a Node named
\* SHA-512(old name) with an empty routing table; OnAccept handled in any
\* other state changes no field of the core.
C4_OnAcceptPromotesFirstNode ==
    [][last'.ev = "OnAccept" =>
           IF state = "Disconnected"
           THEN /\ state' = "Node"
                /\ name' = sha512(name)
                /\ routing_table' = EmptyMap
           ELSE UNCHANGED coreVars]_vars

\* C4: an OnAccept found the core Disconnected and made it a Node.
C4_Witness ==
    /\ last.ev = "OnAccept"
    /\ last.from = "Disconnected"
    /\ state = "Node"
    /\ name = sha512(NameOfKey(OurKey))

\* C5: a BootstrapDeny handled in any state drops the delivering connection
\* and every connection of proxy_map, empties proxy_map, sets the state to
\* Disconnected, and stops and restarts the bootstrap.
C5_BootstrapDenyRestarts ==
    [][last'.type = "BootstrapDeny" =>
           /\ state' = "Disconnected"
           /\ proxy_map' = EmptyMap
           /\ Len(dropped') = 1 + Cardinality(DOMAIN proxy_map)
           /\ dropped'[1] = last'.conn
           /\ Range(Tail(dropped')) = DOMAIN proxy_map
           /\ calls' = <<"stop_bootstrap", "bootstrap">>]_vars

\* C5: a BootstrapDeny reached a core that had two proxies.
C5_Witness ==
    /\ last.type = "BootstrapDeny"
    /\ last.from = "Client"
    /\ Len(dropped) = 3
    /\ state = "Disconnected"

\* C6: a Client that loses the connection to its proxy becomes Disconnected;
\* the core is never in state Client with an empty proxy_map.
C6_ClientHasProxy == state = "Client" => DOMAIN proxy_map # {}

----------------------------------------------------------------------------
(* Becoming a node and admitting joining nodes.                             *)

\* The unrestricted entries of client_map, as Core::joining_nodes_num counts them
JoiningNodes == Cardinality({k \in DOMAIN client_map : ~client_map[k][2]})

\* C3: the state becomes Node only by an OnAccept handled in state
\* Disconnected, or by a NodeIdentify handled in state Client that added an
\* entry to the routing table.
C3_NodeOnlyByAcceptOrIdentify ==
    [][(state # "Node" /\ state' = "Node") =>
           \/ state = "Disconnected" /\ last'.ev = "OnAccept"
           \/ /\ state = "Client"
              /\ last'.type = "NodeIdentify"
              /\ RtLen(routing_table') = RtLen(routing_table) + 1]_vars

C10_JoiningBoundedAtSmallTable ==
    RtLen(routing_table) < GROUP_SIZE =>
        JoiningNodes <= (IF GROUP_SIZE - 1 >= MAX_JOINING_NODES
                         THEN GROUP_SIZE - 1 ELSE MAX_JOINING_NODES)

\* C10, amended: whenever the routing table holds fewer than GROUP_SIZE
\* entries, client_map holds at most max(GROUP_SIZE, MAX_JOINING_NODES)
\* entries without client_restriction.
C10_JoiningBoundedByGroupSize ==
    RtLen(routing_table) < GROUP_SIZE =>
        JoiningNodes <= (IF GROUP_SIZE >= MAX_JOINING_NODES
                         THEN GROUP_SIZE ELSE MAX_JOINING_NODES)

\* C10: with a small routing table and GROUP_SIZE joining nodes admitted, one
\* more joining node was denied.
C10_Witness ==
    /\ RtLen(routing_table) < GROUP_SIZE
    /\ JoiningNodes = GROUP_SIZE
    /\ last.type = "ClientIdentify"
    /\ Len(sent) = 1
    /\ sent[1].msg.type = "BootstrapDeny"
    /\ \E k \in JoinerKeys : k \notin DOMAIN client_map

\* C11: a ClientIdentify with a valid signature, an unrelocated id and
\* client_restriction = true is put into client_map and answered with
\* BootstrapIdentify if the routing table holds at least GROUP_SIZE entries;
\* otherwise it is answered with BootstrapDeny and client_map stays as it was.
C11_RestrictedClientNeedsFullTable ==
    [][(/\ last'.type = "ClientIdentify"
        /\ verify_signed_public_id(last'.msg)
        /\ IsUnrelocated(last'.msg.public_id)
        /\ last'.msg.client_restriction) =>
           IF RtLen(routing_table) >= GROUP_SIZE
           THEN /\ client_map' = Insert(client_map, last'.msg.public_id.key,
                                        <<last'.conn, TRUE>>)
                /\ sent' = <<[conn |-> last'.conn,
                              msg |-> BootstrapIdentify(PublicId(OurKey, name),
                                          RtDynamicQuorumSize(routing_table))]>>
           ELSE /\ client_map' = client_map
                /\ sent' = <<[conn |-> last'.conn, msg |-> BootstrapDeny]>>]_vars

\* C11: a client with client_restriction was admitted at a full routing table.
C11_Witness ==
    /\ last.type = "ClientIdentify"
    /\ last.msg.client_restriction
    /\ RtLen(routing_table) >= GROUP_SIZE
    /\ last.msg.public_id.key \in DOMAIN client_map
    /\ client_map[last.msg.public_id.key] = <<last.conn, TRUE>>
    /\ Len(sent) = 1
    /\ sent[1].msg.type = "BootstrapIdentify"

\* C12: a ClientIdentify that is answered with BootstrapDeny gets exactly that
\* one message on its connection; no connection is dropped, no
\* BootstrapIdentify is sent and client_map stays as it was.
C12_DenialKeepsConnection ==
    [][(/\ last'.type = "ClientIdentify"
        /\ \E i \in 1..Len(sent') : sent'[i].msg.type = "BootstrapDeny") =>
           /\ sent' = <<[conn |-> last'.conn, msg |-> BootstrapDeny]>>
           /\ dropped' = <<>>
           /\ client_map' = client_map]_vars

\* C12: at a full routing table with one joining node in client_map, a second
\* joining node was denied.
C12_Witness ==
    /\ last.type = "ClientIdentify"
    /\ ~last.msg.client_restriction
    /\ last.msg.public_id.key \notin DOMAIN client_map
    /\ RtLen(routing_table) >= GROUP_SIZE
    /\ JoiningNodes = MAX_JOINING_NODES
    /\ sent = <<[conn |-> last.conn, msg |-> BootstrapDeny]>>
    /\ dropped = <<>>

----------------------------------------------------------------------------
(* Messages relayed to the core.                                            *)

\* C7: a HopMessage whose SignedMessage is already in signed_message_filter
\* when it reaches handle_signed_message ends with FilterCheckFailed, changes
\* no field of the core, raises no Event and sends nothing.
C7_DuplicateIsFiltered ==
    [][(last'.dup /\ last'.hop \in {"verified", "unverified"}) =>
           /\ last'.res = "FilterCheckFailed"
           /\ UNCHANGED coreVars
           /\ events' = <<>>
           /\ sent' = <<>>
           /\ dropped' = <<>>
           /\ calls' = <<>>]_vars

\* C7: a Get request that had raised an Event::Request came a second time and
\* was filtered.
C7_Witness ==
    /\ last.dup
    /\ last.hop = "verified"
    /\ last.res = "FilterCheckFailed"
    /\ state = "Node"
    /\ \E m \in signed_message_filter : m.content.content.tag = "Get"

\* C8: no HopMessage reaches handle_signed_message without its hop signature
\* having been verified against a key of the routing table, of client_map or
\* of proxy_map.
C8_HopAlwaysVerified == last.hop # "unverified"

----------------------------------------------------------------------------
(* The name, the routing table and the proxies.                             *)

\* C13: set_self_node_name takes effect at most once: the name changes only
\* from the name the core was constructed with, SHA-512 of its signing key.
C13_NameSetAtMostOnce ==
    [][name' # name => name = NameOfKey(OurKey)]_vars

\* C14: the routing table has entries only in state Node.
C14_RoutingTableOnlyInNode == RtLen(routing_table) > 0 => state = "Node"

\* C15: proxy_map has entries only in states Client and Node; it is empty in
\* states Disconnected and Bootstrapping.
C15_ProxiesOnlyInClientOrNode ==
    DOMAIN proxy_map # {} => state \in {"Client", "Node"}

\* C15: a Client with a proxy was denied and is Disconnected without proxies.
C15_Witness ==
    /\ last.type = "BootstrapDeny"
    /\ last.from = "Client"
    /\ last.conn \in Range(dropped)
    /\ state = "Disconnected"
    /\ DOMAIN proxy_map = {}

----------------------------------------------------------------------------
(* Messages of groups.                                                      *)

C19_CloseGroupResponseNotAccumulated ==
    [][(/\ last'.type = "HopMessage"
        /\ last'.hop \in {"verified", "unverified"}
        /\ ~last'.dup
        /\ check_integrity(last'.msg.content)
        /\ state = "Client"
        /\ last'.msg.content.content.dst.type = "Client"
        /\ last'.msg.content.content.dst.client_key = OurKey
        /\ is_group(last'.msg.content.content.src)
        /\ last'.msg.content.content.kind = "Response"
        /\ last'.msg.content.content.content.tag = "GetCloseGroup") =>
           /\ last'.res # "FilterCheckFailed"
           /\ is_listening'
           /\ last'.msg.content.content.content.ids[1].name \in DOMAIN node_id_cache'
           /\ message_accumulator' = message_accumulator
           /\ grp_msg_filter' = grp_msg_filter]_vars

\* C19: with a quorum of two, the GetCloseGroup response of a second member
\* of the group was dispatched after that of the first.
C19_Witness ==
    /\ last.type = "HopMessage"
    /\ last.from = "Client"
    /\ last.res = "Ok"
    /\ last.msg.content.content.content.tag = "GetCloseGroup"
    /\ quorum_size = QUORUM_SIZE
    /\ \E m \in signed_message_filter :
           /\ m # last.msg.content
           /\ m.content = last.msg.content.content
    /\ message_accumulator = EmptyMap
    /\ grp_msg_filter = {}

\* C20: in state Node a message for a destination outside our close group,
\* not sent by a client of ours, is not forwarded unless our name is strictly
\* closer to the destination than the name of the hop it came from.
C20_DirectionCheck ==
    [][(/\ last'.type = "HopMessage"
        /\ last'.hop = "verified"
        /\ ~last'.dup
        /\ check_integrity(last'.msg.content)
        /\ state = "Node"
        /\ ~RtIsClose(routing_table, name, get_name(last'.msg.content.content.dst))
        /\ ~(/\ last'.msg.content.content.src.type = "Client"
             /\ last'.msg.content.content.src.name = name)
        /\ ~(Xor(name, get_name(last'.msg.content.content.dst)) <
                 Xor(last'.msg.name, get_name(last'.msg.content.content.dst)))) =>
           \A i \in 1..Len(sent') :
               ~(/\ sent'[i].msg.type = "HopMessage"
                 /\ sent'[i].msg.content = last'.msg.content)]_vars

----------------------------------------------------------------------------
(* The user's actions.                                                      *)

\* C21: a NodeSendMessage or ClientSendRequest action gets exactly one reply:
\* Err(NotConnected), with nothing sent, for a ClientSendRequest at an empty
\* proxy_map; otherwise Err exactly if send_message failed with an error of
\* the interface, and Ok for success and for every other error.
C21_ActionGetsOneReply ==
    [][last'.ev \in {"NodeSendMessage", "ClientSendRequest"} =>
           /\ Len(replies') = 1
           /\ IF last'.ev = "ClientSendRequest" /\ DOMAIN proxy_map = {}
              THEN replies' = <<"Err(NotConnected)">> /\ sent' = <<>>
              ELSE replies'[1] = (IF last'.res = "Interface" THEN "Err" ELSE "Ok")]_vars

\* C21: a NodeSendMessage of a client failed with InvalidSource and was
\* answered Ok.
C21_Witness ==
    /\ last.ev = "NodeSendMessage"
    /\ last.res = "InvalidSource"
    /\ replies = <<"Ok">>

----------------------------------------------------------------------------
(* The relocated name.                                                      *)

\* C22: calculate_relocated_name fails for an empty list, gives the hash of
\* the original name and the one node for a list of one, and otherwise the hash
\* of the original name, the node closest to it and the second closest; the
\* result is the same for every order of the list, and is neither the hash of
\* the two nodes followed by the original name nor the original name.
C22_RelocatedName ==
    result # <<>> =>
        /\ Len(args.close_nodes) = 0 => ~result[1]
        /\ Len(args.close_nodes) = 1 =>
               result = <<TRUE, sha512_concat(<<args.original_name, args.close_nodes[1]>>)>>
        /\ Len(args.close_nodes) >= 2 =>
               \E k1, k2 \in Range(args.close_nodes) :
                   /\ k1 # k2
                   /\ \A k \in Range(args.close_nodes) :
                          Xor(k1, args.original_name) <= Xor(k, args.original_name)
                   /\ \A k \in Range(args.close_nodes) \ {k1} :
                          Xor(k2, args.original_name) <= Xor(k, args.original_name)
                   /\ result = <<TRUE, sha512_concat(<<args.original_name, k1, k2>>)>>
                   /\ result[2] # sha512_concat(<<k1, k2, args.original_name>>)
        /\ \A v \in Orders(Range(args.close_nodes)) :
               calculate_relocated_name(v, args.original_name) = result
        /\ result[1] => result[2] # args.original_name

\* C22: the name was calculated from three nodes given farthest first.
C22_Witness ==
    /\ result # <<>>
    /\ result[1]
    /\ Len(args.close_nodes) = 3
    /\ Xor(args.close_nodes[1], args.original_name) > Xor(args.close_nodes[2], args.original_name)
    /\ Xor(args.close_nodes[2], args.original_name) > Xor(args.close_nodes[3], args.original_name)

----------------------------------------------------------------------------
(* The bootstrap of a client.                                               *)

\* C23: a core with client_restriction that is Bootstrapping (it was
\* Disconnected when OnConnect came) and gets a BootstrapIdentify of a relocated
\* proxy ends that step in state Client with the proxy in proxy_map under the
\* connection and the quorum size it was told, gives the user exactly one
\* Connected event, and sends nothing, so no GetNetworkName request.
C23_ClientBootstrap ==
    [][(/\ last'.type = "BootstrapIdentify"
        /\ last'.relocated
        /\ state = "Bootstrapping"
        /\ client_restriction) =>
           /\ state' = "Client"
           /\ last'.conn \in DOMAIN proxy_map'
           /\ proxy_map'[last'.conn] = last'.msg.public_id
           /\ quorum_size' = last'.msg.current_quorum_size
           /\ events' = <<[type |-> "Connected"]>>
           /\ sent' = <<>>]_vars

\* C23: the restricted client was told a quorum size of QUORUM_SIZE by its
\* proxy and is connected.
C23_Witness ==
    /\ last.type = "BootstrapIdentify"
    /\ last.from = "Bootstrapping"
    /\ client_restriction
    /\ state = "Client"
    /\ quorum_size = QUORUM_SIZE
    /\ events = <<[type |-> "Connected"]>>

----------------------------------------------------------------------------
(* Churn.                                                                   *)

\* C24: a Churn event for an added node is raised only by a NodeIdentify that
\* puts that node into the routing table, a Churn event for a lost node only
\* by a LostConnection that removes that node, a member of our close group,
\* from the routing table; a step that leaves the membership of the routing
\* table as it is raises no Churn event.
C24_ChurnMeansChange ==
    [][\A i \in 1..Len(events') :
           events'[i].type = "Churn" =>
               \/ /\ last'.type = "NodeIdentify"
                  /\ events'[i].id = from_added_node(last'.msg.public_id.name)
                  /\ last'.msg.public_id.name \notin DOMAIN routing_table
                  /\ last'.msg.public_id.name \in DOMAIN routing_table'
               \/ /\ last'.ev = "LostConnection"
                  /\ \E n \in DOMAIN routing_table \ DOMAIN routing_table' :
                         /\ n \in Range(RtOurCloseGroup(routing_table, name))
                         /\ events'[i] = Churn(from_lost_node(n), {n})]_vars

----------------------------------------------------------------------------
(* Direct messages of clients and nodes.                                    *)

\* C25: a ClientIdentify with a valid signature, an unrelocated id and no
\* client_restriction is admitted exactly if the routing table and the number
\* of joining nodes are both below GROUP_SIZE or the number of joining nodes is
\* below MAX_JOINING_NODES; then client_map gets the key with the connection,
\* and BootstrapIdentify with our id and the dynamic quorum size is sent on the
\* connection; else BootstrapDeny is sent.
C25_JoiningNodeAdmission ==
    [][(/\ last'.type = "ClientIdentify"
        /\ verify_signed_public_id(last'.msg)
        /\ ~last'.relocated
        /\ ~last'.msg.client_restriction) =>
           IF \/ RtLen(routing_table) < GROUP_SIZE /\ JoiningNodes < GROUP_SIZE
              \/ JoiningNodes < MAX_JOINING_NODES
           THEN /\ client_map' = Insert(client_map, last'.msg.public_id.key,
                                        <<last'.conn, FALSE>>)
                /\ sent' = <<[conn |-> last'.conn,
                              msg |-> BootstrapIdentify(
                                          PublicId(OurKey, name),
                                          RtDynamicQuorumSize(routing_table))]>>
           ELSE /\ client_map' = client_map
                /\ sent' = <<[conn |-> last'.conn, msg |-> BootstrapDeny]>>]_vars

\* C25: a joining node was admitted by a node with one entry in its routing
\* table and was told the quorum size of that table.
C25_Witness ==
    /\ last.type = "ClientIdentify"
    /\ ~last.msg.client_restriction
    /\ RtLen(routing_table) = 1
    /\ last.msg.public_id.key \in DOMAIN client_map
    /\ Len(sent) = 1
    /\ sent[1].msg = BootstrapIdentify(PublicId(OurKey, name),
                                       RtDynamicQuorumSize(routing_table))

\* C26: a ClientIdentify whose signature does not verify or whose id is
\* relocated gets its connection dropped and nothing sent, leaves client_map
\* as it is, and ends with Ok.
C26_BadClientIdentifyDropped ==
    [][(/\ last'.type = "ClientIdentify"
        /\ ~verify_signed_public_id(last'.msg) \/ last'.relocated) =>
           /\ dropped' = <<last'.conn>>
           /\ sent' = <<>>
           /\ client_map' = client_map
           /\ last'.res = "Ok"]_vars

\* C26: a ClientIdentify with a good signature and a relocated id got its
\* connection dropped by a node that admits joining nodes.
C26_Witness ==
    /\ last.type = "ClientIdentify"
    /\ verify_signed_public_id(last.msg)
    /\ last.relocated
    /\ ~last.msg.client_restriction
    /\ last.from = "Node"
    /\ JoiningNodes = 0
    /\ dropped = <<last.conn>>

\* C27: a NodeIdentify changes the routing table, by a new entry for the peer
\* or by a further connection on its entry, only if its signature verifies and
\* node_id_cache holds under the peer's name the very id presented; if the
\* signature fails, the name is not cached or the cached id differs, the
\* connection is dropped and the routing table and the state stay as they are.
C27_NodeIdentifyAdmission ==
    [][last'.type = "NodeIdentify" =>
           /\ routing_table' # routing_table =>
                  /\ verify_signed_public_id(last'.msg)
                  /\ last'.msg.public_id.name \in DOMAIN node_id_cache
                  /\ node_id_cache[last'.msg.public_id.name] = last'.msg.public_id
                  /\ \/ routing_table' =
                            Insert(routing_table, last'.msg.public_id.name,
                                   NodeInfo(last'.msg.public_id, <<last'.conn>>))
                     \/ /\ last'.msg.public_id.name \in DOMAIN routing_table
                        /\ routing_table' =
                               [routing_table EXCEPT
                                    ![last'.msg.public_id.name].connections =
                                        Append(@, last'.conn)]
           /\ (\/ ~verify_signed_public_id(last'.msg)
               \/ last'.msg.public_id.name \notin DOMAIN node_id_cache
               \/ node_id_cache[last'.msg.public_id.name] # last'.msg.public_id) =>
                  /\ dropped' = <<last'.conn>>
                  /\ routing_table' = routing_table
                  /\ state' = state]_vars

\* C27: a peer presented, rightly signed, an id under a name for which another
\* key's id is cached, and its connection was dropped.
C27_Witness ==
    /\ last.type = "NodeIdentify"
    /\ verify_signed_public_id(last.msg)
    /\ last.msg.public_id.name \in DOMAIN node_id_cache
    /\ node_id_cache[last.msg.public_id.name].key # last.msg.public_id.key
    /\ dropped = <<last.conn>>

----------------------------------------------------------------------------
(* Checks on routed messages.                                               *)

\* C28: in state Node a message for a destination within our close group
\* whose source is a client with another key than the one that signed it ends
\* with FailedSignature: no copy of it is sent to anyone, no event is raised
\* and nothing of it is kept but its entry in the filter of seen messages.
C28_ClientSourceChecked ==
    [][(/\ last'.type = "HopMessage"
        /\ last'.hop = "verified"
        /\ ~last'.dup
        /\ check_integrity(last'.msg.content)
        /\ state = "Node"
        /\ RtIsClose(routing_table, name, get_name(last'.msg.content.content.dst))
        /\ last'.msg.content.content.src.type = "Client"
        /\ last'.msg.content.content.src.client_key # last'.msg.content.public_id.key) =>
           /\ last'.res = "FailedSignature"
           /\ \A i \in 1..Len(sent') :
                  ~(sent'[i].msg.type = "HopMessage"
                    /\ sent'[i].msg.content.content = last'.msg.content.content)
           /\ events' = <<>>
           /\ data_cache' = data_cache
           /\ message_accumulator' = message_accumulator
           /\ grp_msg_filter' = grp_msg_filter
           /\ node_id_cache' = node_id_cache
           /\ routing_table' = routing_table]_vars

\* C28: a node refused a request that named a client other than its signer as
\* the source.
C28_Witness ==
    /\ last.type = "HopMessage"
    /\ last.from = "Node"
    /\ last.hop = "verified"
    /\ last.msg.content.content.src.type = "Client"
    /\ last.msg.content.content.src.client_key # last.msg.content.public_id.key
    /\ last.res = "FailedSignature"

\* C29: a GetNetworkName request of a client that reaches the handler of a
\* member of the destination group ends with InvalidDestination, and neither a
\* GetNetworkName response nor an ExpectCloseNode request is sent, if the
\* destination is not the hash of the client's key; otherwise every
\* GetNetworkName response and every ExpectCloseNode request sent carries the
\* client's key under the one relocated name, calculated from our close group
\* and our name; the response goes to the client and the request to the
\* NodeManager of that name.
C29_GetNetworkNameRequest ==
    [][(/\ last'.type = "HopMessage"
        /\ last'.hop = "verified"
        /\ ~last'.dup
        /\ check_integrity(last'.msg.content)
        /\ state = "Node"
        /\ last'.msg.content.content.kind = "Request"
        /\ last'.msg.content.content.content.tag = "GetNetworkName"
        /\ last'.msg.content.content.src.type = "Client"
        /\ last'.msg.content.content.src.client_key = last'.msg.content.public_id.key
        /\ last'.msg.content.content.src.client_key \in DOMAIN client_map
        /\ ~client_map[last'.msg.content.content.src.client_key][2]
        /\ last'.msg.content.content.dst.type = "NaeManager"
        /\ RtIsClose(routing_table, name, last'.msg.content.content.dst.name)) =>
           IF last'.msg.content.content.dst.name #
                  NameOfKey(last'.msg.content.content.src.client_key)
           THEN /\ last'.res = "InvalidDestination"
                /\ \A i \in 1..Len(sent') :
                       sent'[i].msg.type = "HopMessage" =>
                           /\ ~(/\ sent'[i].msg.content.content.kind = "Response"
                                /\ sent'[i].msg.content.content.content.tag = "GetNetworkName")
                           /\ sent'[i].msg.content.content.content.tag # "ExpectCloseNode"
           ELSE /\ last'.res = "Ok"
                /\ \E r \in {s \in Range(sent') : s.msg.type = "HopMessage"} :
                       /\ r.msg.content.content.kind = "Response"
                       /\ r.msg.content.content.content.tag = "GetNetworkName"
                       /\ r.conn = client_map[last'.msg.content.content.src.client_key][1]
                /\ \E n \in {calculate_relocated_name(
                                RtOurCloseGroup(routing_table, name) \o <<name>>,
                                last'.msg.content.content.content.id.name)[2]} :
                   \A i \in 1..Len(sent') :
                       sent'[i].msg.type = "HopMessage" =>
                           /\ (/\ sent'[i].msg.content.content.kind = "Response"
                               /\ sent'[i].msg.content.content.content.tag = "GetNetworkName") =>
                                  /\ sent'[i].msg.content.content.content.id =
                                         PublicId(last'.msg.content.content.content.id.key, n)
                                  /\ sent'[i].msg.content.content.dst =
                                         last'.msg.content.content.src
                           /\ sent'[i].msg.content.content.content.tag = "ExpectCloseNode" =>
                                  /\ sent'[i].msg.content.content.content.id =
                                         PublicId(last'.msg.content.content.content.id.key, n)
                                  /\ sent'[i].msg.content.content.dst = NodeManager(n)]_vars

\* C29: a node with an entry in its routing table answered a client's
\* GetNetworkName request and sent the ExpectCloseNode request to that entry.
C29_Witness ==
    /\ last.type = "HopMessage"
    /\ last.from = "Node"
    /\ last.res = "Ok"
    /\ last.msg.content.content.content.tag = "GetNetworkName"
    /\ \E i, j \in 1..Len(sent) :
           /\ sent[i].msg.type = "HopMessage"
           /\ sent[j].msg.type = "HopMessage"
           /\ sent[i].msg.content.content.kind = "Response"
           /\ sent[i].msg.content.content.content.tag = "GetNetworkName"
           /\ sent[j].msg.content.content.content.tag = "ExpectCloseNode"
           /\ sent[j].msg.content.content.content.id = sent[i].msg.content.content.content.id

\* C30: an ExpectCloseNode request that is dispatched at a node ends with Ok
\* and has its expect_id in node_id_cache if no id was cached under that name,
\* and ends with RejectedPublicId if one was.
C30_ExpectCloseNode ==
    [][(/\ last'.type = "HopMessage"
        /\ last'.hop = "verified"
        /\ ~last'.dup
        /\ check_integrity(last'.msg.content)
        /\ state = "Node"
        /\ last'.msg.content.content.kind = "Request"
        /\ last'.msg.content.content.content.tag = "ExpectCloseNode"
        /\ last'.msg.content.content.src.type = "NaeManager"
        /\ last'.msg.content.content.dst.type = "NodeManager"
        /\ RtIsClose(routing_table, name, last'.msg.content.content.dst.name)
        /\ last'.msg.content.content \notin grp_msg_filter
        /\ Cardinality((IF last'.msg.content.content \in DOMAIN message_accumulator
                        THEN message_accumulator[last'.msg.content.content]
                        ELSE {}) \cup {last'.msg.content.public_id.key})
               >= RtDynamicQuorumSize(routing_table)) =>
           IF last'.msg.content.content.content.id.name \in DOMAIN node_id_cache
           THEN last'.res = "RejectedPublicId"
           ELSE /\ last'.res = "Ok"
                /\ node_id_cache' =
                       Insert(node_id_cache, last'.msg.content.content.content.id.name,
                              last'.msg.content.content.content.id)]_vars

\* C30: a node was told to expect an id under a name it has an id cached
\* for, and refused.
C30_Witness ==
    /\ last.type = "HopMessage"
    /\ last.from = "Node"
    /\ last.msg.content.content.content.tag = "ExpectCloseNode"
    /\ last.res = "RejectedPublicId"

----------------------------------------------------------------------------
(* Relaying to clients.                                                     *)

----------------------------------------------------------------------------
(* The cache of immutable data.                                             *)

\* C32: in state Node a GetSuccess response with immutable data that passes
\* the cache handling of handle_signed_message_for_node is in data_cache
\* afterwards; a Get request for immutable data of a cached name that reaches
\* the cache handling ends with Ok, every GetSuccess response sent for it
\* carries the cached data and the id of the request from ManagedNode(our
\* name) to the source of the request, one is sent if the routing table has an
\* entry, the request is not forwarded where its destination is outside our
\* close group, and no Event::Request is raised; data_cache never holds data
\* other than immutable data under its own name.
C32_DataCache ==
    [][/\ \A n \in DOMAIN data_cache' :
              data_cache'[n].type = "ImmutableData" /\ data_cache'[n].name = n
       /\ (/\ last'.type = "HopMessage"
           /\ last'.hop = "verified"
           /\ ~last'.dup
           /\ check_integrity(last'.msg.content)
           /\ state = "Node"
           /\ IF RtIsClose(routing_table, name, get_name(last'.msg.content.content.dst))
              THEN /\ signed_msg_security_check(last'.msg.content) = "Ok"
                   /\ \/ is_group(last'.msg.content.content.dst)
                      \/ /\ get_name(last'.msg.content.content.dst) = name
                         /\ last'.msg.content.content.dst.type # "Client"
              ELSE ~(/\ last'.msg.content.content.src.type = "Client"
                     /\ last'.msg.content.content.src.name = name)) =>
              /\ (/\ last'.msg.content.content.kind = "Response"
                  /\ last'.msg.content.content.content.tag = "GetSuccess"
                  /\ last'.msg.content.content.content.data.type = "ImmutableData") =>
                     /\ last'.msg.content.content.content.data.name \in DOMAIN data_cache'
                     /\ data_cache'[last'.msg.content.content.content.data.name] =
                            last'.msg.content.content.content.data
              /\ (/\ last'.msg.content.content.kind = "Request"
                  /\ last'.msg.content.content.content.tag = "Get"
                  /\ last'.msg.content.content.content.data.type = "ImmutableData"
                  /\ last'.msg.content.content.content.data.name \in DOMAIN data_cache) =>
                     /\ last'.res = "Ok"
                     /\ \A i \in 1..Len(events') : events'[i].type # "Request"
                     /\ ~RtIsClose(routing_table, name,
                                   get_name(last'.msg.content.content.dst)) =>
                            \A i \in 1..Len(sent') :
                                ~(/\ sent'[i].msg.type = "HopMessage"
                                  /\ sent'[i].msg.content = last'.msg.content)
                     /\ routing_table # EmptyMap =>
                            \E i \in 1..Len(sent') :
                                /\ sent'[i].msg.type = "HopMessage"
                                /\ sent'[i].msg.content.content.kind = "Response"
                                /\ sent'[i].msg.content.content.content.tag = "GetSuccess"
                     /\ \A i \in 1..Len(sent') :
                            (/\ sent'[i].msg.type = "HopMessage"
                             /\ sent'[i].msg.content.content.kind = "Response"
                             /\ sent'[i].msg.content.content.content.tag = "GetSuccess") =>
                                sent'[i].msg.content.content =
                                    ResponseMessage(
                                        UserResponse("GetSuccess",
                                            data_cache[last'.msg.content.content.content.data.name],
                                            last'.msg.content.content.content.id),
                                        ManagedNode(name), last'.msg.content.content.src)]_vars

\* C32: a node with a full routing table answered, from its cache, a Get
\* request for data of a name outside its close group, after a response with
\* data of another type had passed as well.
C32_Witness ==
    /\ last.type = "HopMessage"
    /\ last.from = "Node"
    /\ last.hop = "verified"
    /\ last.res = "Ok"
    /\ last.msg.content.content.kind = "Request"
    /\ last.msg.content.content.content.tag = "Get"
    /\ last.msg.content.content.content.data.name \in DOMAIN data_cache
    /\ ~RtIsClose(routing_table, name, get_name(last.msg.content.content.dst))
    /\ \E m \in signed_message_filter :
           /\ m.content.kind = "Response"
           /\ m.content.content.tag = "GetSuccess"
           /\ m.content.content.data.type = "PlainData"
    /\ \E i \in 1..Len(sent) :
           /\ sent[i].msg.type = "HopMessage"
           /\ sent[i].msg.content.content.kind = "Response"
           /\ sent[i].msg.content.content.src = ManagedNode(name)
           /\ sent[i].msg.content.content.dst = last.msg.content.content.src

----------------------------------------------------------------------------
(* The dispatcher of requests and responses.                                *)

\* C33: the dispatcher ends with Ok and raises exactly one Event::Request,
\* with the message, for a request with content Get, Put, Post, Delete or
\* Refresh, whatever its source and destination, and exactly one
\* Event::Response for a success or failure response to Get, Put, Post or
\* Delete; a message whose content, kind of source and kind of destination are
\* no row of the table ends with BadAuthority, changes nothing of the core,
\* sends nothing, raises no event and calls nothing of the transport.
C33_DispatchTable ==
    [][last'.ev = "Dispatch" =>
         LET m == last'.msg.content
             row == <<m.content.tag, m.src.type, m.dst.type>>
         IN  IF m.kind = "Request" /\ m.content.tag \in {"Get", "Put", "Post", "Delete", "Refresh"}
             THEN /\ last'.res = "Ok"
                  /\ events' = <<[type |-> "Request", msg |-> m]>>
             ELSE IF m.kind = "Response"
                     /\ m.content.tag \in {"GetSuccess", "PutSuccess", "PostSuccess",
                                           "DeleteSuccess", "GetFailure", "PutFailure",
                                           "PostFailure", "DeleteFailure"}
             THEN /\ last'.res = "Ok"
                  /\ events' = <<[type |-> "Response", msg |-> m]>>
             ELSE (IF m.kind = "Request"
                   THEN row \notin {<<"GetNetworkName", "Client", "NaeManager">>,
                                    <<"ExpectCloseNode", "NaeManager", "NodeManager">>,
                                    <<"GetCloseGroup", "Client", "NodeManager">>,
                                    <<"Endpoints", "Client", "ManagedNode">>,
                                    <<"Endpoints", "ManagedNode", "Client">>,
                                    <<"Endpoints", "ManagedNode", "ManagedNode">>,
                                    <<"Connect", "ManagedNode", "ManagedNode">>,
                                    <<"GetPublicId", "ManagedNode", "NodeManager">>,
                                    <<"GetPublicIdWithEndpoints", "ManagedNode", "NodeManager">>}
                   ELSE row \notin {<<"GetNetworkName", "NaeManager", "Client">>,
                                    <<"GetCloseGroup", "NodeManager", "Client">>,
                                    <<"GetPublicId", "NodeManager", "ManagedNode">>,
                                    <<"GetPublicIdWithEndpoints", "NodeManager", "ManagedNode">>})
                  => /\ last'.res = "BadAuthority"
                     /\ UNCHANGED coreVars
                     /\ sent' = <<>>
                     /\ events' = <<>>
                     /\ dropped' = <<>>
                     /\ calls' = <<>>]_vars

\* C33: the dispatcher of a node has raised an event for a request of the
\* user that came from a client for a group.
C33_Witness ==
    /\ last.ev = "Dispatch"
    /\ last.from = "Node"
    /\ last.res = "Ok"
    /\ last.msg.content.kind = "Request"
    /\ last.msg.content.content.tag = "Refresh"
    /\ last.msg.content.src.type = "Client"
    /\ last.msg.content.dst.type = "NaeManager"
    /\ Len(events) = 1
    /\ result = <<"Ok">>

----------------------------------------------------------------------------
(* Connect requests.                                                        *)

\* C34 as the table of the dispatcher words it: on a Connect request from
\* ManagedNode(src) our endpoints are passed to send for ManagedNode(src) if
\* the routing table wants src, and a GetPublicId request for
\* NodeManager(src) if it does not.
C34_ConnectAsTabled ==
    [][(/\ last'.type = "HopMessage"
        /\ last'.hop = "verified"
        /\ ~last'.dup
        /\ check_integrity(last'.msg.content)
        /\ state = "Node"
        /\ last'.msg.content.content.kind = "Request"
        /\ last'.msg.content.content.content.tag = "Connect"
        /\ last'.msg.content.content.src.type = "ManagedNode"
        /\ last'.msg.content.content.dst = ManagedNode(name)) =>
           LET src == last'.msg.content.content.src.name
               passed == (signed_message_filter' \ signed_message_filter) \cup
                         {sent'[i].msg.content :
                              i \in {j \in 1..Len(sent') : sent'[j].msg.type = "HopMessage"}}
           IN  IF src \in DOMAIN routing_table \/ RtWantToAdd(routing_table, name, src)
               THEN \E m \in passed : /\ m.content.content.tag = "Endpoints"
                                      /\ m.content.dst = ManagedNode(src)
               ELSE \E m \in passed : /\ m.content.content.tag = "GetPublicId"
                                      /\ m.content.dst = NodeManager(src)]_vars

\* C34: a Connect request from ManagedNode(src) that reaches the handler of
\* the node it is for ends with RefusedFromRoutingTable, and neither endpoints
\* nor a GetPublicId request are passed to send, if the routing table neither
\* holds nor wants src; if it does and node_id_cache has an id for src, our
\* endpoints, sealed for that id, are passed to send from ManagedNode(our
\* name) to ManagedNode(src) and no GetPublicId request is; if it does and no
\* id is cached, a GetPublicId request is passed to send from ManagedNode(our
\* name) to NodeManager(src) and no endpoints are.
C34_ConnectRequest ==
    [][(/\ last'.type = "HopMessage"
        /\ last'.hop = "verified"
        /\ ~last'.dup
        /\ check_integrity(last'.msg.content)
        /\ state = "Node"
        /\ last'.msg.content.content.kind = "Request"
        /\ last'.msg.content.content.content.tag = "Connect"
        /\ last'.msg.content.content.src.type = "ManagedNode"
        /\ last'.msg.content.content.dst = ManagedNode(name)) =>
           LET src == last'.msg.content.content.src.name
               passed == (signed_message_filter' \ signed_message_filter) \cup
                         {sent'[i].msg.content :
                              i \in {j \in 1..Len(sent') : sent'[j].msg.type = "HopMessage"}}
               endpoints == {m \in passed : m.content.content.tag = "Endpoints"}
               asked == {m \in passed : m.content.content.tag = "GetPublicId"}
           IN  IF ~(src \in DOMAIN routing_table \/ RtWantToAdd(routing_table, name, src))
               THEN /\ last'.res = "RefusedFromRoutingTable"
                    /\ endpoints = {}
                    /\ asked = {}
               ELSE IF src \in DOMAIN node_id_cache
               THEN /\ last'.res = "Ok"
                    /\ endpoints # {}
                    /\ \A m \in endpoints :
                           /\ m.content.src = ManagedNode(name)
                           /\ m.content.dst = ManagedNode(src)
                           /\ m.content.content.box.to = node_id_cache[src].key
                           /\ m.public_id = PublicId(OurKey, name)
                    /\ asked = {}
               ELSE /\ asked # {}
                    /\ \A m \in asked :
                           /\ m.content.kind = "Request"
                           /\ m.content.src = ManagedNode(name)
                           /\ m.content.dst = NodeManager(src)
                           /\ m.public_id = PublicId(OurKey, name)
                    /\ endpoints = {}]_vars

\* C34: a node was asked to connect by a name its routing table wants and for
\* which it has no id cached, and asked the group of that name for the id
\* instead of sending endpoints.
C34_Witness ==
    /\ last.type = "HopMessage"
    /\ last.from = "Node"
    /\ last.hop = "verified"
    /\ last.msg.content.content.kind = "Request"
    /\ last.msg.content.content.content.tag = "Connect"
    /\ last.msg.content.content.dst = ManagedNode(name)
    /\ last.msg.content.content.src.name # name
    /\ last.msg.content.content.src.name \notin DOMAIN node_id_cache
    /\ \E i \in 1..Len(sent) :
           /\ sent[i].msg.type = "HopMessage"
           /\ sent[i].msg.content.content.content.tag = "GetPublicId"
           /\ sent[i].msg.content.content.dst = NodeManager(last.msg.content.content.src.name)
    /\ \A i \in 1..Len(sent) :
           sent[i].msg.type = "HopMessage" =>
               sent[i].msg.content.content.content.tag # "Endpoints"

----------------------------------------------------------------------------
(* The messages a core makes.                                               *)

\* C35: every request and response that this core signs and passes to send
\* has a content, kind of source and kind of destination that are a row of
\* the dispatcher's table, so that the core it is for does not reject it with
\* BadAuthority; the GetPublicIdWithEndpoints request made when endpoints
\* come from a node whose id is not cached goes from a ManagedNode to a
\* NodeManager.
C35_OwnMessagesAreTabled ==
    [][\A m \in {x \in (signed_message_filter' \ signed_message_filter) \cup
                        {sent'[i].msg.content :
                             i \in {j \in 1..Len(sent') : sent'[j].msg.type = "HopMessage"}} :
                     x.public_id.key = OurKey} :
           IF m.content.kind = "Request"
           THEN \/ m.content.content.tag \in UserRequestTags
                \/ <<m.content.content.tag, m.content.src.type, m.content.dst.type>> \in
                       {<<"GetNetworkName", "Client", "NaeManager">>,
                        <<"ExpectCloseNode", "NaeManager", "NodeManager">>,
                        <<"GetCloseGroup", "Client", "NodeManager">>,
                        <<"Endpoints", "Client", "ManagedNode">>,
                        <<"Endpoints", "ManagedNode", "Client">>,
                        <<"Endpoints", "ManagedNode", "ManagedNode">>,
                        <<"Connect", "ManagedNode", "ManagedNode">>,
                        <<"GetPublicId", "ManagedNode", "NodeManager">>,
                        <<"GetPublicIdWithEndpoints", "ManagedNode", "NodeManager">>}
           ELSE \/ m.content.content.tag \in UserResponseTags
                \/ <<m.content.content.tag, m.content.src.type, m.content.dst.type>> \in
                       {<<"GetNetworkName", "NaeManager", "Client">>,
                        <<"GetCloseGroup", "NodeManager", "Client">>,
                        <<"GetPublicId", "NodeManager", "ManagedNode">>,
                        <<"GetPublicIdWithEndpoints", "NodeManager", "ManagedNode">>}]_vars

\* C36: in state Node no step puts the same message of ours on the same
\* connection more than once: a message passed to send is transmitted at most
\* once to each target of the routing table, also when its destination lies
\* within our close group.
C36_TransmittedOnce ==
    [][state = "Node" =>
           \A i, j \in 1..Len(sent') :
               (/\ sent'[i].msg.type = "HopMessage"
                /\ sent'[i].msg.content.public_id.key = OurKey
                /\ sent'[j] = sent'[i]) => i = j]_vars

----------------------------------------------------------------------------
(* Lost connections and refused ids.                                        *)

\* C37: once LostConnection(c) is handled no entry of client_map holds the
\* connection c and c is no key of proxy_map, also when several keys were
\* identified over c.
C37_LostConnectionForgotten ==
    [][last'.ev = "LostConnection" =>
           /\ \A k \in DOMAIN client_map' : client_map'[k][1] # last'.conn
           /\ last'.conn \notin DOMAIN proxy_map']_vars

\* C38: when an ExpectCloseNode request that is dispatched at a node ends with
\* RejectedPublicId, node_id_cache maps the name of the refused id to the id
\* it held before.
C38_RefusedIdNotCached ==
    [][(/\ last'.type = "HopMessage"
        /\ last'.hop = "verified"
        /\ ~last'.dup
        /\ state = "Node"
        /\ last'.msg.content.content.kind = "Request"
        /\ last'.msg.content.content.content.tag = "ExpectCloseNode"
        /\ last'.res = "RejectedPublicId"
        /\ last'.msg.content.content.content.id.name \in DOMAIN node_id_cache) =>
           /\ last'.msg.content.content.content.id.name \in DOMAIN node_id_cache'
           /\ node_id_cache'[last'.msg.content.content.content.id.name] =
                  node_id_cache[last'.msg.content.content.content.id.name]]_vars

----------------------------------------------------------------------------
(* Clients that must not become nodes.                                      *)

\* C40: in state Node a GetNetworkName request from Client{client_key} ends
\* with ClientConnectionNotFound if client_map has client_key with
\* client_restriction: nothing is sent, no event is raised and nothing of the
\* core changes but the filter of seen messages; if client_map has the key
\* without client_restriction, or has it not, the request goes on to
\* handle_signed_message_for_node, which notes the sender in
\* connection_filter; the request of a joining node in client_map that is for
\* the group of its key, within our close group, is answered down its
\* connection.
C40_RestrictedClientGetsNoName ==
    [][(/\ last'.type = "HopMessage"
        /\ last'.hop = "verified"
        /\ ~last'.dup
        /\ check_integrity(last'.msg.content)
        /\ state = "Node"
        /\ last'.msg.content.content.kind = "Request"
        /\ last'.msg.content.content.content.tag = "GetNetworkName"
        /\ last'.msg.content.content.src.type = "Client") =>
           IF /\ last'.msg.content.content.src.client_key \in DOMAIN client_map
              /\ client_map[last'.msg.content.content.src.client_key][2]
           THEN /\ last'.res = "ClientConnectionNotFound"
                /\ sent' = <<>>
                /\ events' = <<>>
                /\ dropped' = <<>>
                /\ calls' = <<>>
                /\ signed_message_filter' = signed_message_filter \cup {last'.msg.content}
                /\ UNCHANGED <<state, client_restriction, name, routing_table, proxy_map,
                               client_map, node_id_cache, connection_filter,
                               grp_msg_filter, message_accumulator, quorum_size,
                               data_cache, is_listening>>
           ELSE /\ last'.msg.content.public_id.name \in connection_filter'
                /\ (/\ last'.msg.content.content.src.client_key \in DOMAIN client_map
                    /\ last'.msg.content.content.src.client_key =
                           last'.msg.content.public_id.key
                    /\ last'.msg.content.content.dst =
                           NaeManager(NameOfKey(last'.msg.content.content.src.client_key))
                    /\ RtIsClose(routing_table, name,
                                 get_name(last'.msg.content.content.dst))) =>
                       \E i \in 1..Len(sent') :
                           /\ sent'[i].msg.type = "HopMessage"
                           /\ sent'[i].msg.content.content.kind = "Response"
                           /\ sent'[i].msg.content.content.content.tag = "GetNetworkName"
                           /\ sent'[i].conn =
                                  client_map[last'.msg.content.content.src.client_key][1]]_vars

\* C40: a node with a full routing table refused the GetNetworkName request of
\* a client it had admitted with client_restriction, after it had answered
\* that of a joining node.
C40_Witness ==
    /\ last.type = "HopMessage"
    /\ last.from = "Node"
    /\ last.hop = "verified"
    /\ last.res = "ClientConnectionNotFound"
    /\ last.msg.content.content.content.tag = "GetNetworkName"
    /\ last.msg.content.content.src.client_key \in DOMAIN client_map
    /\ client_map[last.msg.content.content.src.client_key][2]
    /\ RtLen(routing_table) >= GROUP_SIZE
    /\ sent = <<>>
    /\ \E m \in signed_message_filter :
           /\ m.public_id.key = OurKey
           /\ m.content.kind = "Response"
           /\ m.content.content.tag = "GetNetworkName"

----------------------------------------------------------------------------
(* The NodeIdentify handshake of two cores.                                 *)

\* Each core has the other in its routing table with the link, and nothing is
\* in flight.
HandshakeDone ==
    /\ wire.core = <<>>
    /\ wire.peer = <<>>
    /\ peer.name \in DOMAIN routing_table
    /\ Link \in Range(routing_table[peer.name].connections)
    /\ name \in DOMAIN peer.routing_table
    /\ Link \in Range(peer.routing_table[name].connections)

\* C39: two cores, each with the other's PublicId in node_id_cache, are joined
\* by one new connection.  Once crust has reported it to one of them the
\* exchange of NodeIdentify comes to an end: at most four NodeIdentify
\* messages are sent, nothing stays in flight and each core has the other in
\* its routing table with the connection, for good.  A NodeIdentify for a name
\* the routing table already has with the connection it came on changes
\* nothing and is not answered, at either core.
C39_HandshakeTerminates ==
    /\ [](wire.identifies <= 4)
    /\ (Link \in connections \/ Link \in peer.connections) ~> HandshakeDone
    /\ [][HandshakeDone => HandshakeDone' /\ wire'.identifies = wire.identifies]_vars
    /\ [][(/\ last'.type = "NodeIdentify"
            /\ wire.core # <<>>
            /\ wire'.core = Tail(wire.core)
            /\ last'.msg.public_id.name \in DOMAIN routing_table
            /\ last'.conn \in Range(routing_table[last'.msg.public_id.name].connections)) =>
               /\ sent' = <<>>
               /\ wire'.peer = wire.peer
               /\ UNCHANGED coreVars]_vars
    /\ [][(/\ wire.peer # <<>>
            /\ wire'.peer = Tail(wire.peer)
            /\ Head(wire.peer).msg.public_id.name \in DOMAIN peer.routing_table
            /\ Link \in Range(peer.routing_table[Head(wire.peer).msg.public_id.name]
                                    .connections)) =>
               /\ wire'.core = wire.core
               /\ peer' = peer]_vars

\* C39: both cores were told of the connection by OnConnect; four NodeIdentify
\* messages were sent, the last handled by the first core, which had the
\* second in its routing table and did not answer; each is in the other's
\* routing table.
C39_Witness ==
    /\ HandshakeDone
    /\ wire.identifies = 4
    /\ last.type = "NodeIdentify"
    /\ last.res = "Ok"
    /\ sent = <<>>
    /\ state = "Node"
    /\ peer.state = "Node"

====
